---- MODULE Spec2Model ----
(***************************************************************************)
(* A model of the phospho backend route handlers (explore.py, events.py,  *)
(* projects.py, v2/embeddings.py) and of the aggregation pipelines of     *)
(* services/mongo/metadata.py.                                             *)
(*                                                                         *)
(* A request is handled by one action.  The action records the ordered    *)
(* list of service calls the handler made (calls), the response (resp),   *)
(* the background tasks it added to its BackgroundTasks and its effect on *)
(* the projects collection (projects).  Each request has its own          *)
(* BackgroundTasks; its tasks run after the response was sent.  The model *)
(* follows the tasks of the last request.                                  *)
(***************************************************************************)
EXTENDS Integers, Sequences, FiniteSets, TLC

VARIABLES
    req,         \* the last request: handler, user, project_id, args
    calls,       \* service calls made while handling the last request, in order
    resp,        \* response of the last request
    background_tasks, \* BackgroundTasks of the last request: tasks added, not yet run
    bgLast,      \* outcome of the background task of the last request that ran last
    projects,    \* the projects collection: project_id -> document or NoProject
    environment, \* config.ENVIRONMENT of the running deployment
    mreq,        \* the last metadata.py call: function and arguments
    mcalls,      \* database / service calls made by the last metadata.py call
    mres,        \* its outcome: status, first pipeline, ...
    dbA,         \* a database: tasks and sessions of every project
    dbB,         \* a second database, for comparing results between databases
    resA,        \* result of the last metadata.py query evaluated on dbA
    resB,        \* result of the same query evaluated on dbB
    server,      \* SDK: the server's copy of each task, as the JSON it answers with
    objs,        \* SDK: the Task objects constructed so far: _task_id and _content
    sdk,         \* SDK: the last operation: receiver, requests sent, value returned
    usage,       \* the metered usage of the organization of project p1
    inflight     \* concurrent post_detect_clusters requests: position and locals

apiVars  == <<req, calls, resp, background_tasks, bgLast, projects, environment>>
metaVars == <<mreq, mcalls, mres, dbA, dbB, resA, resB>>
sdkVars  == <<server, objs, sdk>>
quotaVars == <<usage, inflight>>
vars     == <<req, calls, resp, background_tasks, bgLast, projects, environment,
              mreq, mcalls, mres, dbA, dbB, resA, resB, server, objs, sdk,
              usage, inflight>>

----------------------------------------------------------------------------
(* Bounds *)

\* Largest task count, query limit and usage figure explored.
MaxNum == 3

----------------------------------------------------------------------------
(* Strings that the code takes apart are sequences of one-character strings *)

UpperToLower ==
    [c \in {"A", "C", "G", "I", "M", "N", "O", "P", "S", "T", "U", "V", "X"} |->
        CASE c = "A" -> "a" [] c = "C" -> "c" [] c = "G" -> "g" [] c = "I" -> "i"
          [] c = "M" -> "m" [] c = "N" -> "n" [] c = "O" -> "o" [] c = "P" -> "p"
          [] c = "S" -> "s" [] c = "T" -> "t" [] c = "U" -> "u" [] c = "V" -> "v"
          [] c = "X" -> "x"]

\* str.lower()
Lower(s) ==
    [i \in 1..Len(s) |-> IF s[i] \in DOMAIN UpperToLower THEN UpperToLower[s[i]] ELSE s[i]]

RECURSIVE LStrip(_)
LStrip(s) == IF s # <<>> /\ Head(s) = " " THEN LStrip(Tail(s)) ELSE s

RECURSIVE RStrip(_)
RStrip(s) ==
    IF s # <<>> /\ s[Len(s)] = " " THEN RStrip(SubSeq(s, 1, Len(s) - 1)) ELSE s

\* str.strip()
Strip(s) == RStrip(LStrip(s))

\* str.split(sep): the list of the pieces between occurrences of sep
RECURSIVE SplitAcc(_, _, _, _)
SplitAcc(s, sep, cur, acc) ==
    IF s = <<>> THEN Append(acc, cur)
    ELSE IF Head(s) = sep THEN SplitAcc(Tail(s), sep, <<>>, Append(acc, cur))
    ELSE SplitAcc(Tail(s), sep, Append(cur, Head(s)), acc)

Split(s, sep) == SplitAcc(s, sep, <<>>, <<>>)

----------------------------------------------------------------------------
(* Tenants *)

PHOSPHO_ORG_ID == "phospho_org"

Users    == {"alice", "bob"}
Orgs     == {"org1", PHOSPHO_ORG_ID}
Projects == {"p1", "p2"}

\* organizations each user belongs to (held by the identity provider)
OrgsOfUser == [u \in Users |-> IF u = "alice" THEN {"org1"} ELSE {PHOSPHO_ORG_ID}]

NoProject == [exists |-> FALSE, org_id |-> "", settings |-> "", events |-> {}]

InitProjects ==
    [p \in Projects |->
        [exists |-> TRUE,
         org_id |-> IF p = "p1" THEN "org1" ELSE PHOSPHO_ORG_ID,
         settings |-> "s0",
         events |-> {}]]

----------------------------------------------------------------------------
(* Outcome of a handler: the calls it made, its response, the background   *)
(* tasks it enqueued and the projects collection it leaves behind.         *)

Call(fn, p, ok) == [fn |-> fn, project_id |-> p, ok |-> ok, arg |-> 0]

\* a call with a numeric argument worth recording (bill_on_stripe's nb_credits_used)
CallArg(fn, p, arg) == [fn |-> fn, project_id |-> p, ok |-> TRUE, arg |-> arg]

BgTask(fn, p) == [fn |-> fn, project_id |-> p]

\* the usage of a response that reports none
NoUsage == [prompt_tokens |-> -1, total_tokens |-> -1]

\* body: the project a handler returns (NoProject when it returns none);
\* usage: the EmbeddingUsage of an embeddings response; detail: the detail of
\* an HTTPException, where the model records it
Response(code, status, num_rows) ==
    [code |-> code, status |-> status, num_rows |-> num_rows, body |-> NoProject,
     usage |-> NoUsage, detail |-> ""]

\* raise HTTPException(status_code=code) after the calls made so far
Raise(cs, code) ==
    [calls |-> cs, resp |-> Response(code, "error", -1), bg |-> <<>>, projects |-> projects]

\* raise HTTPException(status_code=code, detail=detail)
RaiseDetail(cs, code, detail) == [Raise(cs, code) EXCEPT !.resp.detail = detail]

\* return a body without a "status" field
Return(cs) ==
    [calls |-> cs, resp |-> Response(200, "", -1), bg |-> <<>>, projects |-> projects]

\* return {"status": "ok", ...} after enqueueing the background tasks bg
ReturnOk(cs, bg, num_rows) ==
    [calls |-> cs, resp |-> Response(200, "ok", num_rows), bg |-> bg, projects |-> projects]

\* org membership as the identity provider sees it
IsOrgMember(user, org_id) == org_id \in OrgsOfUser[user]

\* verify_if_propelauth_user_can_access_project(user, project_id): returns the
\* org_id of the project, raises when the project is unknown or the user is not
\* a member of its organization.
VerifyAccess(user, project_id) ==
    IF project_id \notin Projects \/ ~projects[project_id].exists
    THEN [ok |-> FALSE, code |-> 404, org_id |-> "",
          call |-> Call("verify_if_propelauth_user_can_access_project", project_id, FALSE)]
    ELSE IF ~IsOrgMember(user, projects[project_id].org_id)
    THEN [ok |-> FALSE, code |-> 403, org_id |-> "",
          call |-> Call("verify_if_propelauth_user_can_access_project", project_id, FALSE)]
    ELSE [ok |-> TRUE, code |-> 200, org_id |-> projects[project_id].org_id,
          call |-> Call("verify_if_propelauth_user_can_access_project", project_id, TRUE)]

----------------------------------------------------------------------------
(* explore.py *)

\* The shape shared by the read-only explore handlers: check access, then call
\* one service on the same project and return its output.
VerifyThen(user, project_id, fn) ==
    LET v == VerifyAccess(user, project_id) IN
    IF ~v.ok THEN Raise(<<v.call>>, v.code)
    ELSE Return(<<v.call, Call(fn, project_id, TRUE)>>)

\* The has-tasks / has-sessions / has-enough-labelled-tasks handlers reject an
\* empty project_id before anything else.
CheckIdVerifyThen(user, project_id, fn) ==
    IF project_id = "" THEN Raise(<<>>, 400)
    ELSE VerifyThen(user, project_id, fn)

\* found: whether fetch_single_cluster returns a cluster
post_single_cluster(user, project_id, found) ==
    LET v == VerifyAccess(user, project_id) IN
    IF ~v.ok THEN Raise(<<v.call>>, v.code)
    ELSE LET cs == <<v.call, Call("fetch_single_cluster", project_id, found)>> IN
         IF ~found THEN Raise(cs, 404) ELSE Return(cs)

get_event_detection_metrics(user, project_id) ==
    LET v == VerifyAccess(user, project_id) IN
    IF ~v.ok THEN Raise(<<v.call>>, v.code)
    ELSE Return(<<v.call,
                  Call("get_event_definition_from_event_id", project_id, TRUE),
                  Call("get_events_aggregated_metrics", project_id, TRUE)>>)

(* post_detect_clusters *)

\* A value a dict does not hold, and None
Missing == "<missing>"
None    == "<None>"

Plans == {"hobby", None, "pro", Missing}

\* config.PLAN_HOBBY_MAX_NB_DETECTIONS, scaled to the figures explored
PLAN_HOBBY_MAX_NB_DETECTIONS == MaxNum + 1

\* what get_quota may return: a dict whose keys may be absent (-1: absent)
OrgPlans ==
    [plan : Plans, current_usage : -1..MaxNum, max_usage : {-1} \cup 1..(MaxNum + 1)]

\* dict.get(key, default) on an integer entry
GetInt(v, default) == IF v = -1 THEN default ELSE v

\* dict.get("plan"): None when the key is absent
GetPlan(org_plan) == IF org_plan.plan = Missing THEN None ELSE org_plan.plan

Min(a, b) == IF a <= b THEN a ELSE b

\* status code of the quota rejection of post_detect_clusters
DetectClustersQuotaStatus == 403

\* billing before the no-task and quota checks
post_detect_clusters_bills_first(user, project_id, org_plan, total_nb_tasks, limit, clustering_ok) ==
    LET v == VerifyAccess(user, project_id) IN
    IF ~v.ok THEN Raise(<<v.call>>, v.code)
    ELSE
      LET current_usage == GetInt(org_plan.current_usage, 0)
          max_usage == GetInt(org_plan.max_usage, PLAN_HOBBY_MAX_NB_DETECTIONS)
          cs1 == <<v.call, Call("get_quota", project_id, TRUE),
                   Call("get_total_nb_of_tasks", project_id, TRUE)>>
          clustering_sample_size == Min(total_nb_tasks, limit)
          cs0 == cs1 \o <<CallArg("bill_on_stripe", project_id, clustering_sample_size * 2)>>
          cs2 == cs0 \o <<Call("clustering", project_id, clustering_ok)>>
      IN
      IF total_nb_tasks = 0 THEN Raise(cs0, 404)
      ELSE IF (GetPlan(org_plan) = "hobby" \/ GetPlan(org_plan) = None)
              /\ current_usage + clustering_sample_size >= max_usage
      THEN Raise(cs0, DetectClustersQuotaStatus)
      ELSE IF ~clustering_ok THEN Raise(cs2, 500)
      ELSE ReturnOk(cs2, <<>>, -1)

\* clustering before billing
post_detect_clusters_clusters_first(user, project_id, org_plan, total_nb_tasks, limit, clustering_ok) ==
    LET v == VerifyAccess(user, project_id) IN
    IF ~v.ok THEN Raise(<<v.call>>, v.code)
    ELSE
      LET current_usage == GetInt(org_plan.current_usage, 0)
          max_usage == GetInt(org_plan.max_usage, PLAN_HOBBY_MAX_NB_DETECTIONS)
          cs1 == <<v.call, Call("get_quota", project_id, TRUE),
                   Call("get_total_nb_of_tasks", project_id, TRUE)>>
          clustering_sample_size == Min(total_nb_tasks, limit)
          cs2 == cs1 \o <<Call("clustering", project_id, clustering_ok),
                          CallArg("bill_on_stripe", project_id, clustering_sample_size * 2)>>
      IN
      IF total_nb_tasks = 0 THEN Raise(cs1, 404)
      ELSE IF (GetPlan(org_plan) = "hobby" \/ GetPlan(org_plan) = None)
              /\ current_usage + clustering_sample_size >= max_usage
      THEN Raise(cs1, DetectClustersQuotaStatus)
      ELSE IF ~clustering_ok THEN Raise(cs2, 500)
      ELSE ReturnOk(cs2, <<>>, -1)

\* clustering_ok: whether the awaited clustering returns; its exception is
\* not caught and becomes a 500
post_detect_clusters(user, project_id, org_plan, total_nb_tasks, limit, clustering_ok) ==
    LET v == VerifyAccess(user, project_id) IN
    IF ~v.ok THEN Raise(<<v.call>>, v.code)
    ELSE
      LET current_usage == GetInt(org_plan.current_usage, 0)
          max_usage == GetInt(org_plan.max_usage, PLAN_HOBBY_MAX_NB_DETECTIONS)
          cs1 == <<v.call, Call("get_quota", project_id, TRUE),
                   Call("get_total_nb_of_tasks", project_id, TRUE)>>
          clustering_sample_size == Min(total_nb_tasks, limit)
          cs2 == cs1 \o <<CallArg("bill_on_stripe", project_id, clustering_sample_size * 2),
                          Call("clustering", project_id, clustering_ok)>>
      IN
      IF total_nb_tasks = 0 THEN Raise(cs1, 404)
      ELSE IF (GetPlan(org_plan) = "hobby" \/ GetPlan(org_plan) = None)
              /\ current_usage + clustering_sample_size >= max_usage
      THEN Raise(cs1, DetectClustersQuotaStatus)
      ELSE IF ~clustering_ok THEN Raise(cs2, 500)
      ELSE ReturnOk(cs2, <<>>, -1)

----------------------------------------------------------------------------
(* events.py *)

\* organization metadata as the identity provider returns it: the customer_id
\* entry may be absent, None, empty or set
CustomerIds == {Missing, None, "", "cus_1"}

\* customer_id as the handlers compute it (events.py 37-40, embeddings.py 37-40)
CustomerIdOf(org_customer_id) ==
    IF org_customer_id # Missing THEN org_customer_id ELSE None

\* Python truthiness of an Optional[str]
Truthy(x) == x # None /\ x # ""

\* the gate testing customer_id against None only: an empty customer_id passes
BackfillPaymentRequired_none_only(customer_id, org_id) ==
    customer_id = None /\ org_id # PHOSPHO_ORG_ID

\* the billing gate of post_backfill_event: TRUE when the request is refused
BackfillPaymentRequired(customer_id, org_id) ==
    ~Truthy(customer_id) /\ org_id # PHOSPHO_ORG_ID

post_backfill_event(user, project_id, org_customer_id) ==
    LET v == VerifyAccess(user, project_id) IN
    IF ~v.ok THEN Raise(<<v.call>>, v.code)
    ELSE
      LET org_id == v.org_id
          customer_id == CustomerIdOf(org_customer_id)
          cs1 == <<v.call>>
      IN
      IF BackfillPaymentRequired(customer_id, org_id) THEN Raise(cs1, 402)
      ELSE ReturnOk(Append(cs1, Call("get_recipe_from_event_id", project_id, TRUE)),
                    <<BgTask("run_recipe_on_tasks_batched", project_id)>>, -1)

----------------------------------------------------------------------------
(* projects.py *)

\* project = await get_project_by_id(project_id)
\* propelauth.require_org_member(user, project.org_id)
ProjectAccess(user, project_id) ==
    IF ~projects[project_id].exists
    THEN [ok |-> FALSE, code |-> 404,
          calls |-> <<Call("get_project_by_id", project_id, FALSE)>>]
    ELSE IF ~IsOrgMember(user, projects[project_id].org_id)
    THEN [ok |-> FALSE, code |-> 403,
          calls |-> <<Call("get_project_by_id", project_id, TRUE),
                      Call("require_org_member", project_id, FALSE)>>]
    ELSE [ok |-> TRUE, code |-> 200,
          calls |-> <<Call("get_project_by_id", project_id, TRUE),
                      Call("require_org_member", project_id, TRUE)>>]

\* The shape shared by the read-only project handlers.
MemberThen(user, project_id, fn) ==
    LET a == ProjectAccess(user, project_id) IN
    IF ~a.ok THEN Raise(a.calls, a.code)
    ELSE Return(Append(a.calls, Call(fn, project_id, TRUE)))

get_project(user, project_id) ==
    LET a == ProjectAccess(user, project_id) IN
    IF ~a.ok THEN Raise(a.calls, a.code)
    ELSE [Return(a.calls) EXCEPT !.resp.body = projects[project_id]]

\* delete_project deleting before it checks membership
delete_project_deletes_first(user, project_id, cascade_delete) ==
    IF ~projects[project_id].exists
    THEN Raise(<<Call("get_project_by_id", project_id, FALSE)>>, 404)
    ELSE LET cs == <<Call("get_project_by_id", project_id, TRUE),
                     Call("delete_project_from_id", project_id, TRUE)>>
             member == IsOrgMember(user, projects[project_id].org_id)
         IN [calls |-> Append(cs, Call("require_org_member", project_id, member)),
             resp |-> IF member THEN Response(200, "", -1) ELSE Response(403, "error", -1),
             bg |-> IF member /\ cascade_delete
                    THEN <<BgTask("delete_project_related_resources", project_id)>>
                    ELSE <<>>,
             projects |-> [projects EXCEPT ![project_id] = NoProject]]

\* delete_project enqueueing the cascade whatever cascade_delete is
delete_project_always_cascades(user, project_id, cascade_delete) ==
    LET a == ProjectAccess(user, project_id) IN
    IF ~a.ok THEN Raise(a.calls, a.code)
    ELSE [calls |-> Append(a.calls, Call("delete_project_from_id", project_id, TRUE)),
          resp |-> [Response(200, "", -1) EXCEPT !.body = projects[project_id]],
          bg |-> <<BgTask("delete_project_related_resources", project_id)>>,
          projects |-> [projects EXCEPT ![project_id] = NoProject]]

delete_project(user, project_id, cascade_delete) ==
    LET a == ProjectAccess(user, project_id) IN
    IF ~a.ok THEN Raise(a.calls, a.code)
    ELSE [calls |-> Append(a.calls, Call("delete_project_from_id", project_id, TRUE)),
          \* return project: the object read by get_project_by_id
          resp |-> [Response(200, "", -1) EXCEPT !.body = projects[project_id]],
          bg |-> IF cascade_delete
                 THEN <<BgTask("delete_project_related_resources", project_id)>>
                 ELSE <<>>,
          projects |-> [projects EXCEPT ![project_id] = NoProject]]

post_update_project(user, project_id, settings) ==
    LET a == ProjectAccess(user, project_id) IN
    IF ~a.ok THEN Raise(a.calls, a.code)
    ELSE [calls |-> Append(a.calls, Call("update_project", project_id, TRUE)),
          resp |-> [Response(200, "", -1) EXCEPT
                        !.body = [projects[project_id] EXCEPT !.settings = settings]],
          bg |-> <<>>,
          projects |-> [projects EXCEPT ![project_id].settings = settings]]

\* email_tasks answering "ok" without adding the task
email_tasks_no_task(user, project_id) ==
    LET a == ProjectAccess(user, project_id) IN
    IF ~a.ok THEN Raise(a.calls, a.code)
    ELSE ReturnOk(a.calls, <<>>, -1)

email_tasks(user, project_id) ==
    LET a == ProjectAccess(user, project_id) IN
    IF ~a.ok THEN Raise(a.calls, a.code)
    ELSE ReturnOk(a.calls, <<BgTask("email_project_tasks", project_id)>>, -1)

add_events(user, project_id, event) ==
    LET a == ProjectAccess(user, project_id) IN
    IF ~a.ok THEN Raise(a.calls, a.code)
    ELSE [calls |-> Append(a.calls, Call("add_project_events", project_id, TRUE)),
          resp |-> Response(200, "", -1),
          bg |-> <<>>,
          projects |->
              [projects EXCEPT ![project_id].events = @ \cup {event}]]

(* post_upload_tasks *)

s_csv    == <<"c", "s", "v">>
s_xlsx   == <<"x", "l", "s", "x">>
s_input  == <<"i", "n", "p", "u", "t">>
s_output == <<"o", "u", "t", "p", "u", "t">>

SUPPORTED_EXTENSIONS == {s_csv, s_xlsx}

\* file.filename.split(".")[-1]
FileExtension(filename) ==
    LET parts == Split(filename, ".") IN parts[Len(parts)]

\* the columns stripped but not lower-cased
NormalizeColumns_strip_only(columns) == {Strip(c) : c \in columns}

\* tasks_df.columns.str.strip().str.lower()
NormalizeColumns(columns) == {Lower(Strip(c)) : c \in columns}

\* set(required_columns) - set(tasks_df.columns)
MissingColumns(columns) == {s_input, s_output} \ NormalizeColumns(columns)

\* file: filename, whether pandas can read the content, and (when it can) the
\* column names and the number of rows of the frame read
post_upload_tasks(user, project_id, file) ==
    LET a == ProjectAccess(user, project_id) IN
    IF ~a.ok THEN Raise(a.calls, a.code)
    ELSE IF file.filename = <<>> THEN Raise(a.calls, 400)
    ELSE IF FileExtension(file.filename) \notin SUPPORTED_EXTENSIONS THEN Raise(a.calls, 400)
    ELSE IF ~file.parses THEN Raise(a.calls, 400)
    ELSE IF MissingColumns(file.columns) # {} THEN Raise(a.calls, 400)
    ELSE ReturnOk(a.calls,
                  <<BgTask("process_file_upload_into_log_events", project_id)>>,
                  file.num_rows)

\* connects: whether the test listing of Langsmith runs succeeds
connect_langsmith(user, project_id, connects) ==
    LET a == ProjectAccess(user, project_id) IN
    IF ~a.ok THEN Raise(a.calls, a.code)
    ELSE IF ~connects THEN Raise(a.calls, 400)
    ELSE ReturnOk(Append(a.calls, Call("get_quota", project_id, TRUE)),
                  <<BgTask("collect_langsmith_data", project_id)>>, -1)

----------------------------------------------------------------------------
(* v2/endpoints/embeddings.py *)

Environments == {"production", "test", "staging"}

\* 15 * 1000
TOKEN_LIMIT == 15 * 1000

\* A text is represented by the number of tokens tiktoken encodes it to.
TokenCounts == {1, TOKEN_LIMIT, TOKEN_LIMIT + 1}

\* Longest input list explored.
MaxList == 2

\* request_body.input: a string, or a list of strings
EmbeddingInputs ==
    {[is_list |-> FALSE, items |-> <<t>>] : t \in TokenCounts}
    \cup {[is_list |-> TRUE, items |-> <<>>]}
    \cup UNION {{[is_list |-> TRUE, items |-> its] : its \in [1..n -> TokenCounts]} :
                n \in 1..MaxList}

\* the gate closed in production only
EmbeddingsPaymentRequired_production_only(customer_id, org_id) ==
    ~Truthy(customer_id) /\ org_id # PHOSPHO_ORG_ID /\ environment = "production"

\* the billing gate of post_embeddings: TRUE when the request is refused
EmbeddingsPaymentRequired(customer_id, org_id) ==
    ~Truthy(customer_id) /\ org_id # PHOSPHO_ORG_ID /\ environment # "test"

\* the limit of the token count taken as part of the refused range
TokenCountTooHigh_inclusive(inputs_token_count) == inputs_token_count >= TOKEN_LIMIT

\* if inputs_token_count > 15 * 1000
TokenCountTooHigh(inputs_token_count) == inputs_token_count > TOKEN_LIMIT

\* org: org_id and the customer_id entry of its metadata; body: model and input;
\* generated: whether generate_embeddings returns an embedding
post_embeddings(org, body, generated) ==
    LET org_id == org.org_id
        customer_id == CustomerIdOf(org.customer_id)
    IN
    IF EmbeddingsPaymentRequired(customer_id, org_id)
    THEN RaiseDetail(<<>>, 402, "You need to add a payment method")
    ELSE IF body.model # "intent-embed"
    THEN RaiseDetail(<<>>, 400, "Model not supported")
    ELSE IF body.input.is_list /\ Len(body.input.items) > 1
    THEN RaiseDetail(<<>>, 400, "Only one string is allowed")
    \* request_body.input[0] on an empty list: IndexError, an unhandled exception
    ELSE IF body.input.is_list /\ Len(body.input.items) = 0 THEN Raise(<<>>, 500)
    ELSE
      LET inputs_token_count == body.input.items[1] IN
      IF TokenCountTooHigh(inputs_token_count)
      THEN RaiseDetail(<<>>, 400, "Input token count is too high")
      ELSE
        LET cs == <<CallArg("generate_embeddings", "", inputs_token_count)>> IN
        IF ~generated THEN RaiseDetail(cs, 500, "Failed to generate embeddings")
        ELSE [calls |-> cs,
              resp |-> [Response(200, "", -1) EXCEPT
                            !.usage = [prompt_tokens |-> inputs_token_count,
                                       total_tokens |-> inputs_token_count]],
              bg |-> IF org_id # PHOSPHO_ORG_ID /\ environment = "production"
                     THEN <<BgTask("metered_prediction", "")>>
                     ELSE <<>>,
              projects |-> projects]

----------------------------------------------------------------------------
(* Requests as actions *)

NoArgs == [none |-> TRUE]

\* One request handled from start to response: r is the handler's outcome.
Handle(name, user, project_id, args, r) ==
    /\ req.handler = "none"
    /\ req' = [handler |-> name, user |-> user, project_id |-> project_id, args |-> args]
    /\ calls' = r.calls
    /\ resp' = r.resp
    /\ background_tasks' = r.bg
    /\ bgLast' = "none"
    /\ projects' = r.projects
    /\ UNCHANGED environment
    /\ UNCHANGED metaVars
    /\ UNCHANGED sdkVars
    /\ UNCHANGED quotaVars

\* A background task runs after the response of its request was sent; nothing
\* of its outcome goes back to the caller.
BgRun ==
    /\ background_tasks # <<>>
    /\ \E outcome \in {"succeeded", "failed"} : bgLast' = outcome
    /\ background_tasks' = Tail(background_tasks)
    /\ UNCHANGED <<req, calls, resp, projects, environment>>
    /\ UNCHANGED metaVars
    /\ UNCHANGED sdkVars
    /\ UNCHANGED quotaVars

NoRequest == [handler |-> "none", user |-> "", project_id |-> "", args |-> NoArgs]

\* The request is over: its response was sent and its background tasks ran or
\* were lost.  The server waits for the next request; the projects stay.
RequestDone ==
    /\ req.handler # "none"
    /\ req' = NoRequest
    /\ calls' = <<>>
    /\ resp' = Response(0, "", -1)
    /\ background_tasks' = <<>>
    /\ bgLast' = "none"
    /\ UNCHANGED <<projects, environment>>
    /\ UNCHANGED metaVars
    /\ UNCHANGED sdkVars
    /\ UNCHANGED quotaVars

(* explore.py *)

post_project_has_tasks ==
    \E u \in Users, p \in Projects \cup {""} :
        Handle("post_project_has_tasks", u, p, NoArgs,
               CheckIdVerifyThen(u, p, "project_has_tasks"))

post_project_has_sessions ==
    \E u \in Users, p \in Projects \cup {""} :
        Handle("post_project_has_sessions", u, p, NoArgs,
               CheckIdVerifyThen(u, p, "project_has_sessions"))

post_project_has_enough_labelled_tasks ==
    \E u \in Users, p \in Projects \cup {""} :
        Handle("post_project_has_enough_labelled_tasks", u, p, NoArgs,
               CheckIdVerifyThen(u, p, "project_has_enough_labelled_tasks"))

get_dashboard_project_metrics ==
    \E u \in Users, p \in Projects :
        Handle("get_dashboard_project_metrics", u, p, NoArgs,
               VerifyThen(u, p, "deprecated_get_dashboard_aggregated_metrics"))

get_tasks_project_metrics ==
    \E u \in Users, p \in Projects :
        Handle("get_tasks_project_metrics", u, p, NoArgs,
               VerifyThen(u, p, "get_tasks_aggregated_metrics"))

get_sessions_project_metrics ==
    \E u \in Users, p \in Projects :
        Handle("get_sessions_project_metrics", u, p, NoArgs,
               VerifyThen(u, p, "get_sessions_aggregated_metrics"))

get_events_project_metrics ==
    \E u \in Users, p \in Projects :
        Handle("get_events_project_metrics", u, p, NoArgs,
               VerifyThen(u, p, "get_events_aggregated_metrics"))

get_filtered_events ==
    \E u \in Users, p \in Projects :
        Handle("get_filtered_events", u, p, NoArgs,
               VerifyThen(u, p, "get_all_events"))

get_ab_tests ==
    \E u \in Users, p \in Projects :
        Handle("get_ab_tests", u, p, NoArgs,
               VerifyThen(u, p, "create_ab_tests_table"))

post_all_clusterings ==
    \E u \in Users, p \in Projects :
        Handle("post_all_clusterings", u, p, NoArgs,
               VerifyThen(u, p, "fetch_all_clusterings"))

post_all_clusters ==
    \E u \in Users, p \in Projects :
        Handle("post_all_clusters", u, p, NoArgs,
               VerifyThen(u, p, "fetch_all_clusters"))

PostSingleCluster ==
    \E u \in Users, p \in Projects, found \in BOOLEAN :
        Handle("post_single_cluster", u, p, [found |-> found],
               post_single_cluster(u, p, found))

PostDetectClusters ==
    \E u \in Users, p \in Projects, org_plan \in OrgPlans,
       total_nb_tasks \in 0..MaxNum, limit \in 1..MaxNum, clustering_ok \in BOOLEAN :
        Handle("post_detect_clusters", u, p,
               [org_plan |-> org_plan, total_nb_tasks |-> total_nb_tasks, limit |-> limit],
               post_detect_clusters(u, p, org_plan, total_nb_tasks, limit, clustering_ok))

get_nb_items_with_a_metadata_field ==
    \E u \in Users, p \in Projects :
        Handle("get_nb_items_with_a_metadata_field", u, p, NoArgs,
               VerifyThen(u, p, "nb_items_with_a_metadata_field"))

get_compute_nb_items_with_metadata_field ==
    \E u \in Users, p \in Projects :
        Handle("get_compute_nb_items_with_metadata_field", u, p, NoArgs,
               VerifyThen(u, p, "compute_nb_items_with_metadata_field"))

get_compute_session_length_per_metadata ==
    \E u \in Users, p \in Projects :
        Handle("get_compute_session_length_per_metadata", u, p, NoArgs,
               VerifyThen(u, p, "compute_session_length_per_metadata"))

get_successrate_stats ==
    \E u \in Users, p \in Projects :
        Handle("get_successrate_stats", u, p, NoArgs,
               VerifyThen(u, p, "compute_successrate_metadata_quantiles"))

get_dashboard_graphs ==
    \E u \in Users, p \in Projects :
        Handle("get_dashboard_graphs", u, p, NoArgs,
               VerifyThen(u, p, "get_dashboard_aggregated_metrics"))

GetEventDetectionMetrics ==
    \E u \in Users, p \in Projects :
        Handle("get_event_detection_metrics", u, p, NoArgs,
               get_event_detection_metrics(u, p))

(* events.py *)

PostBackfillEvent ==
    \E u \in Users, p \in Projects, c \in CustomerIds :
        Handle("post_backfill_event", u, p, [customer_id |-> c],
               post_backfill_event(u, p, c))

\* post_confirm_event confirming the event without checking access
post_confirm_event_unchecked ==
    \E u \in Users, p \in Projects :
        Handle("post_confirm_event", u, p, NoArgs,
               Return(<<Call("confirm_event", p, TRUE)>>))

post_confirm_event ==
    \E u \in Users, p \in Projects :
        Handle("post_confirm_event", u, p, NoArgs,
               VerifyThen(u, p, "confirm_event"))

(* projects.py *)

GetProject ==
    \E u \in Users, p \in Projects :
        Handle("get_project", u, p, NoArgs, get_project(u, p))

DeleteProject ==
    \E u \in Users, p \in Projects, cascade_delete \in BOOLEAN :
        Handle("delete_project", u, p, [cascade_delete |-> cascade_delete],
               delete_project(u, p, cascade_delete))

PostUpdateProject ==
    \E u \in Users, p \in Projects, settings \in {"s0", "s1"} :
        Handle("post_update_project", u, p, [settings |-> settings],
               post_update_project(u, p, settings))

post_sessions ==
    \E u \in Users, p \in Projects :
        Handle("post_sessions", u, p, NoArgs,
               MemberThen(u, p, "get_all_sessions"))

get_sessions ==
    \E u \in Users, p \in Projects :
        Handle("get_sessions", u, p, NoArgs,
               MemberThen(u, p, "get_all_sessions"))

get_events ==
    \E u \in Users, p \in Projects :
        Handle("get_events", u, p, NoArgs,
               MemberThen(u, p, "get_all_events"))

post_search_tasks ==
    \E u \in Users, p \in Projects :
        Handle("post_search_tasks", u, p, NoArgs,
               MemberThen(u, p, "search_tasks_in_project"))

get_languages ==
    \E u \in Users, p \in Projects :
        Handle("get_languages", u, p, NoArgs,
               MemberThen(u, p, "collect_languages"))

post_search_sessions ==
    \E u \in Users, p \in Projects :
        Handle("post_search_sessions", u, p, NoArgs,
               MemberThen(u, p, "search_sessions_in_project"))

post_tasks ==
    \E u \in Users, p \in Projects :
        Handle("post_tasks", u, p, NoArgs,
               MemberThen(u, p, "get_all_tasks"))

get_tasks ==
    \E u \in Users, p \in Projects :
        Handle("get_tasks", u, p, NoArgs,
               MemberThen(u, p, "get_all_tasks"))

EmailTasks ==
    \E u \in Users, p \in Projects :
        Handle("email_tasks", u, p, NoArgs, email_tasks(u, p))

get_tests ==
    \E u \in Users, p \in Projects :
        Handle("get_tests", u, p, NoArgs,
               MemberThen(u, p, "get_all_tests"))

AddEvents ==
    \E u \in Users, p \in Projects :
        Handle("add_events", u, p, [event |-> "e1"], add_events(u, p, "e1"))

get_users ==
    \E u \in Users, p \in Projects :
        Handle("get_users", u, p, NoArgs,
               VerifyThen(u, p, "get_all_users_metadata"))

get_project_unique_events ==
    \E u \in Users, p \in Projects :
        Handle("get_project_unique_events", u, p, NoArgs,
               MemberThen(u, p, "get_all_events"))

ConnectLangsmith ==
    \E u \in Users, p \in Projects, connects \in BOOLEAN :
        Handle("connect_langsmith", u, p, [connects |-> connects],
               connect_langsmith(u, p, connects))

PostEmbeddings ==
    \E org_id \in Orgs, c \in CustomerIds, model \in {"intent-embed", "text-embed"},
       input \in EmbeddingInputs, generated \in BOOLEAN :
        Handle("post_embeddings", "", "",
               [org_id |-> org_id, customer_id |-> c, model |-> model,
                input |-> input, generated |-> generated],
               post_embeddings([org_id |-> org_id, customer_id |-> c],
                               [model |-> model, input |-> input], generated))

(* Uploaded files *)

Filenames ==
    { <<>>,
      <<"a", ".", "c", "s", "v">>,
      <<"a", ".", "x", "l", "s", "x">>,
      <<"a", ".", "C", "S", "V">>,
      <<"a", ".", "c", "s", "v", ".", "t">>,
      <<"a", ".", "t", ".", "c", "s", "v">>,
      <<"a", "c", "s", "v">>,
      <<".", "c", "s", "v">>,
      <<"a", ".", "c", "s", "v", ".">>,
      <<"a", ".", "t">> }

ColumnSets ==
    { {s_input, s_output},
      {<<" ", "I", "n", "p", "u", "t", " ">>, <<"O", "U", "T", "P", "U", "T">>},
      {s_input, s_output, <<"t", "a", "s", "k", "_", "i", "d">>},
      {s_input},
      {s_output, <<"t", "a", "s", "k", "_", "i", "d">>},
      {<<"i", "n", " ", "p", "u", "t">>, s_output},
      {<<"i", "n", "p", "u", "t", "s">>, s_output},
      {} }

UploadedFiles ==
    [filename : Filenames, parses : BOOLEAN, columns : ColumnSets, num_rows : 0..MaxNum]

\* the few files uploaded where uploads run next to the other project requests
SampleFiles ==
    { [filename |-> <<"a", ".", "c", "s", "v">>, parses |-> TRUE,
       columns |-> {s_input, s_output}, num_rows |-> 2],
      [filename |-> <<"a", ".", "t">>, parses |-> TRUE,
       columns |-> {s_input, s_output}, num_rows |-> 2],
      [filename |-> <<"a", ".", "x", "l", "s", "x">>, parses |-> TRUE,
       columns |-> {s_input}, num_rows |-> 1] }

PostUploadTasks(files) ==
    \E u \in Users, p \in Projects, file \in files :
        Handle("post_upload_tasks", u, p, file, post_upload_tasks(u, p, file))

----------------------------------------------------------------------------
(* services/mongo/metadata.py: the pipelines *)

\* A stage is an operator with its arguments; an argument is a triple
\* <<field path, operator, value>>, every literal written as a string.
Stage(op, args) == [op |-> op, args |-> args]

Arg(path, rel, val) == <<path, rel, val>>

\* f"metadata.{metadata_field}"
MetadataPath(metadata_field) == <<"metadata", metadata_field>>

\* the filter of mongo_db[collection].distinct(key, filter), then the distinct
fetch_count_pipeline(project_id, collection_name, metadata_field) ==
    << Stage("$match", { Arg(<<"project_id">>, "$eq", project_id),
                         Arg(MetadataPath(metadata_field), "$ne", None) }),
       Stage("distinct", { Arg(MetadataPath(metadata_field), "key", "") }) >>

calculate_average_for_metadata_pipeline(project_id, collection_name, metadata_field) ==
    << Stage("$match", { Arg(<<"project_id">>, "$eq", project_id),
                         Arg(MetadataPath(metadata_field), "$exists", "True") }),
       Stage("$group", { Arg(<<"_id">>, "$field", metadata_field),
                         Arg(<<"count">>, "$sum", "1") }),
       Stage("$group", { Arg(<<"_id">>, "$const", None),
                         Arg(<<"average">>, "$avg", "count") }) >>

calculate_top10_percent_pipeline(project_id, collection_name, metadata_field) ==
    << Stage("$match", { Arg(<<"project_id">>, "$eq", project_id) }),
       Stage("$match", { Arg(MetadataPath(metadata_field), "$exists", "True") }),
       Stage("$group", { Arg(<<"_id">>, "$field", metadata_field),
                         Arg(<<"metadataValueCount">>, "$sum", "1") }),
       Stage("$sort", { Arg(<<"metadataValueCount">>, "order", "-1") }),
       Stage("$facet", { Arg(<<"totalKeyCount">>, "$count", "count"),
                         Arg(<<"sortedData">>, "$match", "") }) >>

calculate_bottom10_percent_pipeline(project_id, collection_name, metadata_field) ==
    << Stage("$match", { Arg(<<"project_id">>, "$eq", project_id) }),
       Stage("$match", { Arg(MetadataPath(metadata_field), "$exists", "True") }),
       Stage("$group", { Arg(<<"_id">>, "$field", "user_id"),
                         Arg(<<"metadataValueCount">>, "$sum", "1") }),
       Stage("$sort", { Arg(<<"metadataValueCount">>, "order", "1") }),
       Stage("$facet", { Arg(<<"totalMetadataKeyCount">>, "$count", "count"),
                         Arg(<<"sortedData">>, "$match", "") }) >>

\* match_pipeline of fetch_user_metadata; user_id is None when not given
fetch_user_metadata_match(project_id, user_id) ==
    IF user_id # None
    THEN << Stage("$match", { Arg(<<"project_id">>, "$eq", project_id),
                              Arg(MetadataPath("user_id"), "$eq", user_id) }) >>
    ELSE << Stage("$match", { Arg(<<"project_id">>, "$eq", project_id),
                              Arg(MetadataPath("user_id"), "$ne", None) }) >>

fetch_user_metadata_pipeline(project_id, user_id) ==
    fetch_user_metadata_match(project_id, user_id) \o
    << Stage("$set", { Arg(<<"is_success">>, "$cond", "flag == success"),
                       Arg(MetadataPath("total_tokens"), "$cond", "missing -> 0") }),
       Stage("$group", { Arg(<<"_id">>, "$field", "user_id"),
                         Arg(<<"nb_tasks">>, "$sum", "1"),
                         Arg(<<"avg_success_rate">>, "$avg", "is_success"),
                         Arg(<<"tasks">>, "$push", "$$ROOT"),
                         Arg(<<"total_tokens">>, "$sum", "total_tokens"),
                         Arg(<<"events">>, "$push", "events") }),
       Stage("$lookup", { Arg(<<"from">>, "collection", "sessions"),
                          Arg(<<"tasks", "session_id">>, "localField", ""),
                          Arg(<<"id">>, "foreignField", ""),
                          Arg(<<"sessions">>, "as", "") }),
       Stage("$set", { Arg(<<"events">>, "$reduce", "$setUnion") }),
       Stage("$addFields", { Arg(<<"events">>, "$ifNull", "[]"),
                             Arg(<<"sessions">>, "$ifNull", "[]") }),
       Stage("$addFields", { Arg(<<"events">>, "$reduce", "first per event_name"),
                             Arg(<<"sessions">>, "$reduce", "first per id") }),
       Stage("$project", { Arg(<<"user_id">>, "$field", "_id"),
                           Arg(<<"avg_session_length">>, "$avg", "sessions.session_length"),
                           Arg(<<"tasks_id">>, "$field", "tasks.id") }),
       Stage("$sort", { Arg(<<"user_id">>, "order", "1") }) >>

build_unique_metadata_fields_pipeline(project_id, type) ==
    << Stage("$match", { Arg(<<"project_id">>, "$eq", project_id),
                         Arg(<<"metadata">>, "$exists", "True"),
                         Arg(<<"metadata">>, "$ne", "{}") }),
       Stage("$project", { Arg(<<"metadata_keys">>, "$objectToArray", "metadata") }),
       Stage("$unwind", { Arg(<<"metadata_keys">>, "path", "") }) >>
    \o (IF type = "number"
        THEN << Stage("$match", { Arg(<<"metadata_keys", "v">>, "$isNumber", "True") }) >>
        ELSE <<>>)
    \o (IF type = "string"
        THEN << Stage("$match", { Arg(<<"metadata_keys", "v">>, "$type", "string") }) >>
        ELSE <<>>)

(* breakdown_by_sum_of_metadata_field *)

s_nb_tasks == <<"n", "b", " ", "t", "a", "s", "k", "s">>
s_avg_success_rate ==
    <<"a", "v", "g", " ", "s", "u", "c", "c", "e", "s", "s", " ", "r", "a", "t", "e">>
s_avg_session_length ==
    <<"a", "v", "g", " ", "s", "e", "s", "s", "i", "o", "n", " ",
      "l", "e", "n", "g", "t", "h">>
s_sum == <<"s", "u", "m">>
s_avg == <<"a", "v", "g">>

\* timestamps are small integers; -1 stands for None
TimeStr(t) == IF t = 1 THEN "1" ELSE IF t = 2 THEN "2" ELSE "3"

\* main_filter rebuilt, without the project, when a creation date is given
breakdown_main_filter_rebuilt(project_id, filters) ==
    IF filters.created_at_start = -1 /\ filters.created_at_end = -1
    THEN { Arg(<<"project_id">>, "$eq", project_id) }
    ELSE (IF filters.created_at_start # -1
          THEN { Arg(<<"created_at">>, "$gte", TimeStr(filters.created_at_start)) }
          ELSE {})
         \cup (IF filters.created_at_end # -1
               THEN { Arg(<<"created_at">>, "$lte", TimeStr(filters.created_at_end)) }
               ELSE {})

\* main_filter
breakdown_main_filter(project_id, filters) ==
    { Arg(<<"project_id">>, "$eq", project_id) }
    \cup (IF filters.created_at_start # -1
          THEN { Arg(<<"created_at">>, "$gte", TimeStr(filters.created_at_start)) }
          ELSE {})
    \cup (IF filters.created_at_end # -1
          THEN { Arg(<<"created_at">>, "$lte", TimeStr(filters.created_at_end)) }
          ELSE {})

\* breakdown_by_col, as it stands when the metric stages are appended
breakdown_by_col(breakdown_by, category_metadata_fields) ==
    IF breakdown_by = "task_position" THEN <<"task_position">>
    ELSE IF breakdown_by = "event_name" THEN <<"events", "event_name">>
    ELSE IF breakdown_by \in category_metadata_fields THEN MetadataPath(breakdown_by)
    ELSE IF breakdown_by = "None" THEN <<"id">>
    ELSE <<breakdown_by>>

\* the metric is "sum" or "avg" and the field is not a number field
breakdown_rejects(metric, metadata_field, number_metadata_fields) ==
    (Lower(metric) = s_sum \/ Lower(metric) = s_avg)
    /\ metadata_field \notin number_metadata_fields

breakdown_pipeline(project_id, metric, metadata_field, number_metadata_fields, category_metadata_fields, breakdown_by, filters) ==
    LET col == breakdown_by_col(breakdown_by, category_metadata_fields)
        m == Lower(metric)
    IN
    << Stage("$match", breakdown_main_filter(project_id, filters)) >>
    \o (IF breakdown_by = "event_name"
        THEN << Stage("$addFields", { Arg(<<"events">>, "$reduce", "first per event_name") }),
                Stage("$unwind", { Arg(<<"events">>, "path", "") }),
                Stage("$match", { Arg(<<"events", "removed">>, "$ne", "True") }) >>
        ELSE <<>>)
    \o (IF m = s_nb_tasks
        THEN << Stage("$group", { Arg(col, "_id", ""), Arg(metric, "$sum", "1") }) >>
        ELSE <<>>)
    \o (IF m = s_avg_success_rate
        THEN << Stage("$match", { Arg(<<"flag">>, "$exists", "True") }),
                Stage("$set", { Arg(<<"is_success">>, "$cond", "flag == success") }),
                Stage("$group", { Arg(col, "_id", ""), Arg(metric, "$avg", "is_success") }) >>
        ELSE <<>>)
    \o (IF m = s_avg_session_length
        THEN << Stage("$lookup", { Arg(<<"from">>, "collection", "sessions"),
                                   Arg(<<"session_id">>, "localField", ""),
                                   Arg(<<"id">>, "foreignField", ""),
                                   Arg(<<"session">>, "as", "") }),
                Stage("$addFields", { Arg(<<"session">>, "$ifNull", "[]") }),
                Stage("$unwind", { Arg(<<"session">>, "path", "") }),
                Stage("$group", { Arg(col, "_id", ""),
                                  Arg(metric, "$avg", "session.session_length") }) >>
        ELSE <<>>)
    \o (IF m = s_sum /\ metadata_field \in number_metadata_fields
        THEN << Stage("$match", { Arg(MetadataPath(metadata_field), "$exists", "True") }),
                Stage("$group", { Arg(col, "_id", ""),
                                  Arg(Append(metric, metadata_field), "$sum", metadata_field) }) >>
        ELSE <<>>)
    \o (IF m = s_avg /\ metadata_field \in number_metadata_fields
        THEN << Stage("$match", { Arg(MetadataPath(metadata_field), "$exists", "True") }),
                Stage("$group", { Arg(col, "_id", ""),
                                  Arg(Append(metric, metadata_field), "$avg", metadata_field) }) >>
        ELSE <<>>)
    \o << Stage("$match", { Arg(<<"_id">>, "$ne", None) }),
          Stage("$project", { Arg(<<breakdown_by>>, "$field", "_id"),
                              Arg(metric, "keep", "1"),
                              Arg(Append(metric, metadata_field), "keep", "1") }) >>
    \o (IF breakdown_by = "task_position"
        THEN << Stage("$sort", { Arg(<<breakdown_by>>, "order", "1") }) >>
        ELSE << Stage("$sort", { Arg(Append(metric, metadata_field), "order", "-1"),
                                 Arg(metric, "order", "-1") }) >>)

\* The calls made, in order, and how the function ends.  compute_task_position
\* runs where line 517 stands: after the event stages, before the metric ones.
breakdown_by_sum_of_metadata_field(project_id, metric, metadata_field, number_metadata_fields, category_metadata_fields, breakdown_by, filters) ==
    LET cs1 == IF breakdown_by = "task_position"
               THEN <<Call("compute_task_position", project_id, TRUE)>>
               ELSE <<>>
    IN
    IF breakdown_rejects(metric, metadata_field, number_metadata_fields)
    THEN [status |-> 400, calls |-> cs1, pipeline |-> <<>>]
    ELSE [status |-> 200,
          calls |-> Append(cs1, Call("aggregate", project_id, TRUE)),
          pipeline |-> breakdown_pipeline(project_id, metric, metadata_field,
                                          number_metadata_fields,
                                          category_metadata_fields, breakdown_by, filters)]

----------------------------------------------------------------------------
(* The documents the pipelines run over, and what the pipelines compute *)

RECURSIVE SumSeq(_)
SumSeq(s) == IF s = <<>> THEN 0 ELSE Head(s) + SumSeq(Tail(s))

RECURSIVE GCD(_, _)
GCD(a, b) == IF b = 0 THEN a ELSE GCD(b, a % b)

\* $avg as a fraction in lowest terms; <<0, 0>> is null, the average of nothing
Avg(sum, count) ==
    IF count = 0 THEN <<0, 0>>
    ELSE LET g == GCD(sum, count) IN IF g = 0 THEN <<0, 1>> ELSE <<sum \div g, count \div g>>

\* the elements of s at the positions idx, in order
RECURSIVE PickFrom(_, _, _)
PickFrom(s, idx, i) ==
    IF i > Len(s) THEN <<>>
    ELSE (IF i \in idx THEN <<s[i]>> ELSE <<>>) \o PickFrom(s, idx, i + 1)

\* the elements of s with no earlier element of the same key, keys[i] being
\* the key of s[i] (the $reduce that keeps $$this unless its key is already
\* $in $$value)
FirstPerKey(s, keys) ==
    PickFrom(s, {i \in 1..Len(s) : \A j \in 1..(i - 1) : keys[j] # keys[i]}, 1)

\* the concatenation of a sequence of sequences
RECURSIVE Flatten(_)
Flatten(ss) == IF ss = <<>> THEN <<>> ELSE Head(ss) \o Flatten(Tail(ss))

Range(s) == {s[i] : i \in 1..Len(s)}

Reverse(s) == [i \in 1..Len(s) |-> s[Len(s) + 1 - i]]

\* The orders in which $setUnion may return its elements (the order of its
\* output is unspecified): first occurrences in input order, or the reverse.
SetUnionOrders == {"forward", "reverse"}

\* $reduce with $setUnion over an array of arrays: the distinct elements
SetUnion(arrays, order) ==
    LET all == Flatten(arrays)
        distinct == FirstPerKey(all, all)
    IN IF order = "forward" THEN distinct ELSE Reverse(distinct)

EventNames(events) == [i \in 1..Len(events) |-> events[i].event_name]

\* Task and session documents.  metadata.user_id is Missing, None or an id;
\* metadata.total_tokens and created_at are integers, -1 when absent.
Task(id, project_id, created_at, user_id, total_tokens, session_id, flag, events) ==
    [id |-> id, project_id |-> project_id, created_at |-> created_at,
     user_id |-> user_id, total_tokens |-> total_tokens,
     session_id |-> session_id, flag |-> flag, events |-> events]

Event(event_name, removed) == [event_name |-> event_name, removed |-> removed]

Session(id, project_id, session_length) ==
    [id |-> id, project_id |-> project_id, session_length |-> session_length]

\* the values of $metadata.user_id as a $group _id, in the ascending order
\* of $sort: null sorts before every string
UserIdsInOrder == <<None, "u1", "u2">>

\* $metadata.user_id as a $group _id: a missing field groups as null
UserIdKey(t) == IF t.user_id = Missing THEN None ELSE t.user_id

\* whether f"metadata.{metadata_field}" exists in a task
MetadataExists(t, metadata_field) ==
    IF metadata_field = "user_id" THEN t.user_id # Missing
    ELSE IF metadata_field = "total_tokens" THEN t.total_tokens # -1
    ELSE FALSE

(* fetch_user_metadata *)

\* the $match stage without its {"$ne": None} on metadata.user_id
UserMetadataMatched_any_user(db, project_id, user_id) ==
    SelectSeq(db.tasks,
              LAMBDA t : /\ t.project_id = project_id
                         /\ (user_id # None => t.user_id = user_id))

\* the $match stage of fetch_user_metadata applied to the tasks collection
UserMetadataMatched(db, project_id, user_id) ==
    SelectSeq(db.tasks,
              LAMBDA t : /\ t.project_id = project_id
                         /\ IF user_id # None THEN t.user_id = user_id
                            ELSE t.user_id \notin {None, Missing})

\* the $lookup from sessions: every session whose id is the session_id of one
\* of the tasks, in the order of the sessions collection
LookupSessions(db, tasks) ==
    SelectSeq(db.sessions, LAMBDA s : s.id \in {tasks[i].session_id : i \in 1..Len(tasks)})

SessionIds(sessions) == [i \in 1..Len(sessions) |-> sessions[i].id]

UserMetadataEntry(db, tasks, u, order) ==
    LET ts == SelectSeq(tasks, LAMBDA t : UserIdKey(t) = u)
        looked_up == LookupSessions(db, ts)
        sessions == FirstPerKey(looked_up, SessionIds(looked_up))
        \* $push of each task's events, then $setUnion of the pushed arrays
        all_events == SetUnion([i \in 1..Len(ts) |-> ts[i].events], order)
    IN
    [user_id |-> u,
     nb_tasks |-> Len(ts),
     avg_success_rate |->
         Avg(Len(SelectSeq(ts, LAMBDA t : t.flag = "success")), Len(ts)),
     avg_session_length |->
         Avg(SumSeq([i \in 1..Len(sessions) |-> sessions[i].session_length]),
             Len(sessions)),
     total_tokens |->
         SumSeq([i \in 1..Len(ts) |->
                    IF ts[i].total_tokens = -1 THEN 0 ELSE ts[i].total_tokens]),
     events |-> FirstPerKey(all_events, EventNames(all_events)),
     tasks_id |-> [i \in 1..Len(ts) |-> ts[i].id],
     sessions |-> sessions]

\* raising 404 on every empty result, a user_id given or not
fetch_user_metadata_raises_when_empty(db, project_id, user_id, order) ==
    LET tasks == UserMetadataMatched(db, project_id, user_id)
        present == SelectSeq(UserIdsInOrder,
                             LAMBDA u : \E i \in 1..Len(tasks) : UserIdKey(tasks[i]) = u)
        users == [i \in 1..Len(present) |->
                     UserMetadataEntry(db, tasks, present[i], order)]
    IN
    IF Len(users) = 0
    THEN [status |-> 404, users |-> <<>>]
    ELSE [status |-> 200, users |-> users]

fetch_user_metadata(db, project_id, user_id, order) ==
    LET tasks == UserMetadataMatched(db, project_id, user_id)
        present == SelectSeq(UserIdsInOrder,
                             LAMBDA u : \E i \in 1..Len(tasks) : UserIdKey(tasks[i]) = u)
        users == [i \in 1..Len(present) |->
                     UserMetadataEntry(db, tasks, present[i], order)]
    IN
    IF user_id # None /\ Len(users) = 0
    THEN [status |-> 404, users |-> <<>>]
    ELSE [status |-> 200, users |-> users]

(* breakdown_by_sum_of_metadata_field *)

\* $match main_filter
BreakdownMatched(db, project_id, filters) ==
    SelectSeq(db.tasks,
              LAMBDA t : /\ t.project_id = project_id
                         /\ filters.created_at_start # -1 =>
                                (t.created_at # -1 /\ t.created_at >= filters.created_at_start)
                         /\ filters.created_at_end # -1 =>
                                (t.created_at # -1 /\ t.created_at <= filters.created_at_end))


\* A row of the pipeline: a task, with the event it was unwound on and the
\* session it was joined to when those stages ran.
Row(t, ev, sess) == [t |-> t, ev |-> ev, sess |-> sess]

NoSession == Session(Missing, Missing, 0)

\* first event per event_name, one row per remaining event, removed ones dropped
UnwindEvents(tasks) ==
    Flatten([n \in 1..Len(tasks) |->
                LET t == tasks[n]
                    evs == SelectSeq(FirstPerKey(t.events, EventNames(t.events)),
                                     LAMBDA e : e.removed # TRUE)
                IN [i \in 1..Len(evs) |-> Row(t, evs[i].event_name, NoSession)]])

\* $lookup on session_id, then $unwind: one row per session found
UnwindSessions(db, rows) ==
    Flatten([n \in 1..Len(rows) |->
                LET r == rows[n]
                    found == SelectSeq(db.sessions, LAMBDA s : s.id = r.t.session_id)
                IN [i \in 1..Len(found) |-> Row(r.t, r.ev, found[i])]])

\* the value of f"${breakdown_by_col}" in a row; None when the field is absent
RowKey(r, col) ==
    IF col = <<"id">> THEN r.t.id
    ELSE IF col = <<"metadata", "user_id">>
         THEN (IF r.t.user_id = Missing THEN None ELSE r.t.user_id)
    ELSE IF col = <<"events", "event_name">> THEN (IF r.ev = Missing THEN None ELSE r.ev)
    ELSE IF col = <<"flag">> THEN (IF r.t.flag = Missing THEN None ELSE r.t.flag)
    ELSE None

\* the _id values of the $group that pass $match _id != None
GroupKeys(rows, col) == {RowKey(rows[i], col) : i \in 1..Len(rows)} \ {None}

breakdown_result(db, project_id, metric, metadata_field, number_metadata_fields, category_metadata_fields, breakdown_by, filters) ==
    LET col == breakdown_by_col(breakdown_by, category_metadata_fields)
        m == Lower(metric)
        matched == BreakdownMatched(db, project_id, filters)
        rows0 == IF breakdown_by = "event_name" THEN UnwindEvents(matched)
                 ELSE [i \in 1..Len(matched) |-> Row(matched[i], Missing, NoSession)]
        \* $group by key with the accumulator Acc over the rows of each key
        GroupRows(rows, c, Acc(_)) ==
            { [key |-> k, value |-> Acc(SelectSeq(rows, LAMBDA r : RowKey(r, c) = k))] :
                k \in GroupKeys(rows, c) }
    IN
    IF m = s_nb_tasks
    THEN GroupRows(rows0, col, LAMBDA rs : <<Len(rs), 1>>)
    ELSE IF m = s_avg_success_rate
    THEN GroupRows(SelectSeq(rows0, LAMBDA r : r.t.flag # Missing), col,
                   LAMBDA rs : Avg(Len(SelectSeq(rs, LAMBDA r : r.t.flag = "success")),
                                   Len(rs)))
    ELSE IF m = s_avg_session_length
    THEN GroupRows(UnwindSessions(db, rows0), col,
                   LAMBDA rs : Avg(SumSeq([i \in 1..Len(rs) |-> rs[i].sess.session_length]),
                                   Len(rs)))
    ELSE IF m = s_sum
    THEN GroupRows(SelectSeq(rows0, LAMBDA r : MetadataExists(r.t, metadata_field)), col,
                   LAMBDA rs : <<SumSeq([i \in 1..Len(rs) |-> rs[i].t.total_tokens]), 1>>)
    ELSE IF m = s_avg
    THEN GroupRows(SelectSeq(rows0, LAMBDA r : MetadataExists(r.t, metadata_field)), col,
                   LAMBDA rs : Avg(SumSeq([i \in 1..Len(rs) |-> rs[i].t.total_tokens]),
                                   Len(rs)))
    \* no $group stage: one row per document, keyed by the document
    ELSE { [key |-> rows0[i].t.id, value |-> <<0, 0>>] : i \in 1..Len(rows0) }

(* fetch_count, calculate_average_for_metadata, calculate_*10_percent *)

\* the documents of a collection as the metadata queries see them: sessions
\* carry no metadata here
CollectionDocs(db, collection_name) ==
    IF collection_name = "tasks" THEN db.tasks ELSE <<>>

\* the value of f"$metadata.{metadata_field}" as a grouping key
MetadataKey(t, metadata_field) ==
    IF metadata_field = "user_id" THEN <<t.user_id>>
    ELSE IF metadata_field = "total_tokens" /\ t.total_tokens # -1
         THEN <<"number", t.total_tokens>>
    ELSE <<Missing>>

fetch_count(db, project_id, collection_name, metadata_field) ==
    LET docs == SelectSeq(CollectionDocs(db, collection_name),
                          LAMBDA t : /\ t.project_id = project_id
                                     /\ MetadataKey(t, metadata_field)
                                            \notin {<<None>>, <<Missing>>})
    IN [status |-> 200,
        value |-> <<Cardinality({MetadataKey(docs[i], metadata_field) :
                                     i \in 1..Len(docs)}), 1>>]

MetadataKeys(docs, metadata_field) ==
    [i \in 1..Len(docs) |-> MetadataKey(docs[i], metadata_field)]

\* $group by key with a count: the counts, one per group, keys holding the
\* key of each document
GroupCounts(keys) ==
    LET firsts == FirstPerKey(keys, keys) IN
    [i \in 1..Len(firsts) |-> Len(SelectSeq(keys, LAMBDA k : k = firsts[i]))]

\* a sequence of integers sorted, ascending
RECURSIVE SortAsc(_)
SortAsc(s) ==
    IF s = <<>> THEN <<>>
    ELSE LET m == CHOOSE i \in 1..Len(s) : \A j \in 1..Len(s) : s[i] <= s[j]
         IN <<s[m]>> \o SortAsc(SubSeq(s, 1, m - 1) \o SubSeq(s, m + 1, Len(s)))

Max(a, b) == IF a >= b THEN a ELSE b

calculate_average_for_metadata(db, project_id, collection_name, metadata_field) ==
    LET docs == SelectSeq(CollectionDocs(db, collection_name),
                          LAMBDA t : /\ t.project_id = project_id
                                     /\ MetadataExists(t, metadata_field))
        counts == GroupCounts(MetadataKeys(docs, metadata_field))
    IN IF counts = <<>> THEN [status |-> 404, value |-> <<0, 0>>]
       ELSE [status |-> 200, value |-> Avg(SumSeq(counts), Len(counts))]

calculate_top10_percent(db, project_id, collection_name, metadata_field) ==
    LET docs == SelectSeq(CollectionDocs(db, collection_name),
                          LAMBDA t : /\ t.project_id = project_id
                                     /\ MetadataExists(t, metadata_field))
        sortedData == Reverse(SortAsc(GroupCounts(MetadataKeys(docs, metadata_field))))
        total_users == Len(sortedData)
        ten_percent_index == Max((total_users \div 10) - 1, 0)
    IN IF total_users = 0 THEN [status |-> 404, value |-> <<0, 0>>]
       ELSE IF ten_percent_index < Len(sortedData)
       THEN [status |-> 200, value |-> <<sortedData[ten_percent_index + 1], 1>>]
       ELSE [status |-> 200, value |-> <<0, 1>>]

\* reads mongo_db["tasks"] and groups by metadata.user_id, whatever the arguments
calculate_bottom10_percent(db, project_id, collection_name, metadata_field) ==
    LET docs == SelectSeq(db.tasks,
                          LAMBDA t : /\ t.project_id = project_id
                                     /\ MetadataExists(t, metadata_field))
        sortedData == SortAsc(GroupCounts([i \in 1..Len(docs) |-> UserIdKey(docs[i])]))
        total_users == Len(sortedData)
        ten_percent_index == Min(total_users \div 10, total_users - 1)
    IN IF total_users = 0 THEN [status |-> 404, value |-> <<0, 0>>]
       ELSE IF ten_percent_index < Len(sortedData)
       THEN [status |-> 200, value |-> <<sortedData[ten_percent_index + 1], 1>>]
       ELSE [status |-> 200, value |-> <<0, 1>>]

----------------------------------------------------------------------------
(* The databases explored *)

T1 == Task("t1", "p1", 1, "u1", 5, "s1", "success", <<Event("e1", FALSE)>>)
T2 == Task("t2", "p1", 2, "u1", -1, "s2", Missing,
           <<Event("e1", TRUE), Event("e1", FALSE), Event("e2", TRUE)>>)
T3 == Task("t3", "p2", 1, "u2", 3, "s1", "failure", <<>>)

S1p1 == Session("s1", "p1", 2)
S1p2 == Session("s1", "p2", 4)
S2p1 == Session("s2", "p1", 1)

TaskLists == { PickFrom(<<T1, T2, T3>>, idx, 1) : idx \in SUBSET (1..3) }

SessionLists ==
    { <<>> } \cup { <<a>> : a \in {S1p1, S1p2, S2p1} }
    \cup { ab \in {S1p1, S1p2, S2p1} \X {S1p1, S1p2, S2p1} : ab[1] # ab[2] }

Databases == [tasks : TaskLists, sessions : SessionLists]

FullDatabase == [tasks |-> <<T1, T2, T3>>, sessions |-> <<S1p1, S2p1>>]

\* A project with two users, tasks without a user, tasks sharing a session
\* and events repeated within and across the tasks of a user.
R1 == Task("r1", "p1", 1, "u2", 5, "s1", "success",
           <<Event("e1", FALSE), Event("e1", TRUE)>>)
R2 == Task("r2", "p1", 2, "u1", 4, "s1", Missing,
           <<Event("e1", TRUE), Event("e1", FALSE), Event("e2", FALSE)>>)
R3 == Task("r3", "p1", 3, "u1", 2, "s1", "failure", <<Event("e2", FALSE)>>)
R4 == Task("r4", "p1", 1, None, 1, "s2", "success", <<Event("e2", TRUE)>>)
R5 == Task("r5", "p2", 1, "u1", 3, "s2", "failure", <<Event("e1", FALSE)>>)
R6 == Task("r6", "p1", 2, Missing, -1, "s2", "success", <<>>)

RollupTaskLists ==
    { PickFrom(<<R1, R2, R3, R4, R5, R6>>, idx, 1) : idx \in SUBSET (1..6) }

RollupDatabases == [tasks : RollupTaskLists, sessions : SessionLists]

----------------------------------------------------------------------------
(* metadata.py calls as actions *)

NoMetaCall == [fn |-> "none", project_id |-> "", args |-> NoArgs]

MetaCall(fn, project_id, args, status, cs, pipeline, ra, rb) ==
    /\ mreq.fn = "none"
    /\ mreq' = [fn |-> fn, project_id |-> project_id, args |-> args]
    /\ mcalls' = cs
    /\ mres' = [status |-> status, pipeline |-> pipeline]
    /\ resA' = ra
    /\ resB' = rb
    /\ UNCHANGED <<dbA, dbB>>
    /\ UNCHANGED apiVars
    /\ UNCHANGED sdkVars
    /\ UNCHANGED quotaVars

\* The call returned; the databases stay.
MetaDone ==
    /\ mreq.fn # "none"
    /\ mreq' = NoMetaCall
    /\ mcalls' = <<>>
    /\ mres' = [status |-> 0, pipeline |-> <<>>]
    /\ resA' = [status |-> 0]
    /\ resB' = [status |-> 0]
    /\ UNCHANGED <<dbA, dbB>>
    /\ UNCHANGED apiVars
    /\ UNCHANGED sdkVars
    /\ UNCHANGED quotaVars

CollectionNames == {"tasks", "sessions"}
MetadataFields  == {"user_id", "total_tokens"}

FetchCount ==
    \E p \in Projects, c \in CollectionNames, f \in MetadataFields :
        MetaCall("fetch_count", p, [collection_name |-> c, metadata_field |-> f],
                 200, <<Call("distinct", p, TRUE)>>, fetch_count_pipeline(p, c, f),
                 fetch_count(dbA, p, c, f), fetch_count(dbB, p, c, f))

CalculateAverageForMetadata ==
    \E p \in Projects, c \in CollectionNames, f \in MetadataFields :
        MetaCall("calculate_average_for_metadata", p,
                 [collection_name |-> c, metadata_field |-> f],
                 calculate_average_for_metadata(dbA, p, c, f).status,
                 <<Call("aggregate", p, TRUE)>>,
                 calculate_average_for_metadata_pipeline(p, c, f),
                 calculate_average_for_metadata(dbA, p, c, f),
                 calculate_average_for_metadata(dbB, p, c, f))

CalculateTop10Percent ==
    \E p \in Projects, c \in CollectionNames, f \in MetadataFields :
        MetaCall("calculate_top10_percent", p,
                 [collection_name |-> c, metadata_field |-> f],
                 calculate_top10_percent(dbA, p, c, f).status,
                 <<Call("aggregate", p, TRUE)>>,
                 calculate_top10_percent_pipeline(p, c, f),
                 calculate_top10_percent(dbA, p, c, f),
                 calculate_top10_percent(dbB, p, c, f))

CalculateBottom10Percent ==
    \E p \in Projects, c \in CollectionNames, f \in MetadataFields :
        MetaCall("calculate_bottom10_percent", p,
                 [collection_name |-> c, metadata_field |-> f],
                 calculate_bottom10_percent(dbA, p, c, f).status,
                 <<Call("aggregate", p, TRUE)>>,
                 calculate_bottom10_percent_pipeline(p, c, f),
                 calculate_bottom10_percent(dbA, p, c, f),
                 calculate_bottom10_percent(dbB, p, c, f))

FetchUserMetadata ==
    \E p \in Projects, u \in {None, "u1", "u2"}, order \in SetUnionOrders :
        MetaCall("fetch_user_metadata", p, [user_id |-> u, order |-> order],
                 fetch_user_metadata(dbA, p, u, order).status,
                 <<Call("aggregate", p, TRUE)>>,
                 fetch_user_metadata_pipeline(p, u),
                 fetch_user_metadata(dbA, p, u, order),
                 fetch_user_metadata(dbB, p, u, order))

BuildUniqueMetadataFieldsPipeline ==
    \E p \in Projects, type \in {"number", "string"} :
        MetaCall("_build_unique_metadata_fields_pipeline", p, [type |-> type],
                 200, <<>>, build_unique_metadata_fields_pipeline(p, type),
                 [status |-> 200], [status |-> 200])

\* arguments of breakdown_by_sum_of_metadata_field
Metrics ==
    { s_nb_tasks, s_avg_success_rate, s_avg_session_length, s_sum, s_avg,
      <<"S", "U", "M">>, <<"A", "v", "g">>, <<"m", "a", "x">> }

BreakdownArgs ==
    [metric : Metrics,
     metadata_field : MetadataFields,
     number_metadata_fields : {{}, {"total_tokens"}},
     category_metadata_fields : {{"user_id"}},
     breakdown_by : {"None", "user_id", "event_name", "task_position", "flag"},
     filters : {[created_at_start |-> -1, created_at_end |-> -1],
                [created_at_start |-> 2, created_at_end |-> -1],
                [created_at_start |-> 1, created_at_end |-> 1]}]

\* the calls compared between databases
BreakdownArgsData ==
    [metric : {s_nb_tasks, s_avg_success_rate, s_avg_session_length, s_sum},
     metadata_field : {"total_tokens"},
     number_metadata_fields : {{"total_tokens"}},
     category_metadata_fields : {{"user_id"}},
     breakdown_by : {"None", "user_id", "event_name"},
     filters : {[created_at_start |-> -1, created_at_end |-> -1]}]

BreakdownResult(db, p, a, status) ==
    IF status # 200 THEN [status |-> status, rows |-> {}]
    ELSE [status |-> 200,
          rows |-> breakdown_result(db, p, a.metric, a.metadata_field,
                                    a.number_metadata_fields, a.category_metadata_fields,
                                    a.breakdown_by, a.filters)]

BreakdownBySumOfMetadataField(argsets) ==
    \E p \in Projects, a \in argsets :
        LET r == breakdown_by_sum_of_metadata_field(p, a.metric, a.metadata_field,
                     a.number_metadata_fields, a.category_metadata_fields,
                     a.breakdown_by, a.filters)
        IN MetaCall("breakdown_by_sum_of_metadata_field", p, a, r.status, r.calls,
                    r.pipeline, BreakdownResult(dbA, p, a, r.status),
                    BreakdownResult(dbB, p, a, r.status))

----------------------------------------------------------------------------
(* phospho/tasks.py: the SDK's Task objects *)

\* Most Task objects constructed in a run.
MaxObjects == 2

TaskIds == {"t1", "t2"}

Json(kind, v) == [kind |-> kind, v |-> v]

\* What the server may hold for a task and answer with: a JSON object (two
\* versions of it), a JSON array, or null.
JsonValues == {Json("object", 1), Json("object", 2), Json("array", 1), Json("null", 0)}

\* _content is None
NoContent == [kind |-> "None", v |-> 0]

\* try: TaskModel(**json) / except TypeError: keep what was given.  Unpacking
\* with ** raises TypeError on anything that is not a mapping; null stays None.
ToContent(json) ==
    IF json.kind = "object" THEN [kind |-> "TaskModel", v |-> json.v]
    ELSE IF json.kind = "null" THEN NoContent
    ELSE json

\* Task.__init__
NewTask(task_id, json) == [task_id |-> task_id, content |-> ToContent(json)]

HttpGet(task_id) == [method |-> "GET", path |-> <<"tasks", task_id>>]

HttpPost(task_id) == [method |-> "POST", path |-> <<"tasks", task_id>>]

\* the record of an operation: its name, the index of the receiver (0 when it
\* has none), the requests it sent and the content it returned (NoContent when
\* it returns no content)
SdkOp(op, receiver, http, ret) ==
    [op |-> op, receiver |-> receiver, http |-> http, ret |-> ret]

InitSdk ==
    /\ server = [t \in TaskIds |-> Json("object", 1)]
    /\ objs = <<>>
    /\ sdk = SdkOp("none", 0, <<>>, NoContent)

\* Task(client, task_id, _content) called by the user
TaskInit ==
    \E t \in TaskIds, json \in JsonValues :
        /\ Len(objs) < MaxObjects
        /\ objs' = Append(objs, NewTask(t, json))
        /\ sdk' = SdkOp("__init__", 0, <<>>, NoContent)
        /\ UNCHANGED server
        /\ UNCHANGED apiVars
        /\ UNCHANGED metaVars
        /\ UNCHANGED quotaVars

\* TaskCollection.get
TaskCollectionGet ==
    \E t \in TaskIds :
        /\ Len(objs) < MaxObjects
        /\ server[t].kind = "object"       \* response.json()["id"]
        /\ objs' = Append(objs, NewTask(t, server[t]))
        /\ sdk' = SdkOp("get", 0, <<HttpGet(t)>>, NoContent)
        /\ UNCHANGED server
        /\ UNCHANGED apiVars
        /\ UNCHANGED metaVars
        /\ UNCHANGED quotaVars

\* the Task.content read with the test on the cache left out
TaskContent_always_gets ==
    \E i \in 1..Len(objs) :
        LET fetched == ToContent(server[objs[i].task_id]) IN
        /\ objs' = [objs EXCEPT ![i].content = fetched]
        /\ sdk' = SdkOp("content", i, <<HttpGet(objs[i].task_id)>>, fetched)
        /\ UNCHANGED server
        /\ UNCHANGED apiVars
        /\ UNCHANGED metaVars
        /\ UNCHANGED quotaVars

\* Task.content
TaskContent ==
    \E i \in 1..Len(objs) :
        /\ IF objs[i].content = NoContent
           THEN LET fetched == ToContent(server[objs[i].task_id]) IN
                /\ objs' = [objs EXCEPT ![i].content = fetched]
                /\ sdk' = SdkOp("content", i, <<HttpGet(objs[i].task_id)>>, fetched)
           ELSE /\ objs' = objs
                /\ sdk' = SdkOp("content", i, <<>>, objs[i].content)
        /\ UNCHANGED server
        /\ UNCHANGED apiVars
        /\ UNCHANGED metaVars
        /\ UNCHANGED quotaVars

\* Task.refresh
TaskRefresh ==
    \E i \in 1..Len(objs) :
        /\ objs' = [objs EXCEPT ![i].content = ToContent(server[objs[i].task_id])]
        /\ sdk' = SdkOp("refresh", i, <<HttpGet(objs[i].task_id)>>, NoContent)
        /\ UNCHANGED server
        /\ UNCHANGED apiVars
        /\ UNCHANGED metaVars
        /\ UNCHANGED quotaVars

\* Task.update storing the response in the receiver
TaskUpdate_in_place ==
    \E i \in 1..Len(objs), updated \in JsonValues :
        /\ Len(objs) < MaxObjects
        /\ server' = [server EXCEPT ![objs[i].task_id] = updated]
        /\ objs' = Append([objs EXCEPT ![i].content = ToContent(updated)],
                          NewTask(objs[i].task_id, updated))
        /\ sdk' = SdkOp("update", i, <<HttpPost(objs[i].task_id)>>, NoContent)
        /\ UNCHANGED apiVars
        /\ UNCHANGED metaVars
        /\ UNCHANGED quotaVars

\* Task.update: the server applies the update and answers with its new copy
TaskUpdate ==
    \E i \in 1..Len(objs), updated \in JsonValues :
        /\ Len(objs) < MaxObjects
        /\ server' = [server EXCEPT ![objs[i].task_id] = updated]
        /\ objs' = Append(objs, NewTask(objs[i].task_id, updated))
        /\ sdk' = SdkOp("update", i, <<HttpPost(objs[i].task_id)>>, NoContent)
        /\ UNCHANGED apiVars
        /\ UNCHANGED metaVars
        /\ UNCHANGED quotaVars

\* The server's copy of a task changes without this client.
ServerChange ==
    \E t \in TaskIds, json \in JsonValues :
        /\ server[t] # json
        /\ server' = [server EXCEPT ![t] = json]
        /\ sdk' = SdkOp("server", 0, <<>>, NoContent)
        /\ UNCHANGED objs
        /\ UNCHANGED apiVars
        /\ UNCHANGED metaVars
        /\ UNCHANGED quotaVars

----------------------------------------------------------------------------
(* post_detect_clusters requests of one organization running concurrently *)

\* the requests in flight
DetectRequests == {"q1", "q2"}

\* get_quota for the organization of the project: a hobby plan whose
\* current_usage is the metered usage; max_usage is left to the default
get_quota(metered) == [plan |-> "hobby", current_usage |-> metered, max_usage |-> -1]

\* bill_on_stripe(org_id, nb_credits_used): the credits are added to the
\* metered usage of the organization
bill_on_stripe(metered, nb_credits_used) == metered + nb_credits_used

NotStarted == [pc |-> "start", org_plan |-> get_quota(0), clustering_sample_size |-> 0, code |-> 0]

InitQuota ==
    /\ usage = 0
    /\ inflight = [r \in DetectRequests |-> NotStarted]

\* explore.py:374-375: access is verified and get_quota has returned
DetectGetQuota ==
    \E r \in DetectRequests :
        /\ inflight[r].pc = "start"
        /\ VerifyAccess("alice", "p1").ok
        /\ inflight' = [inflight EXCEPT ![r].pc = "quota", ![r].org_plan = get_quota(usage)]
        /\ UNCHANGED usage
        /\ UNCHANGED apiVars
        /\ UNCHANGED metaVars
        /\ UNCHANGED sdkVars

\* explore.py:390-406: get_total_nb_of_tasks has returned; the request is
\* rejected, or admitted and about to await bill_on_stripe
DetectCheck ==
    \E r \in DetectRequests, total_nb_tasks \in 0..MaxNum, limit \in 1..MaxNum :
        LET out == post_detect_clusters("alice", "p1", inflight[r].org_plan,
                                        total_nb_tasks, limit, TRUE)
            billed == \E i \in 1..Len(out.calls) : out.calls[i].fn = "bill_on_stripe"
        IN /\ inflight[r].pc = "quota"
           /\ inflight' = [inflight EXCEPT
                  ![r].pc = IF billed THEN "billing" ELSE "rejected",
                  ![r].clustering_sample_size = Min(total_nb_tasks, limit),
                  ![r].code = out.resp.code]
           /\ UNCHANGED usage
           /\ UNCHANGED apiVars
           /\ UNCHANGED metaVars
           /\ UNCHANGED sdkVars

\* explore.py:406: bill_on_stripe has metered the credits of the request
DetectBill ==
    \E r \in DetectRequests :
        /\ inflight[r].pc = "billing"
        /\ usage' = bill_on_stripe(usage, inflight[r].clustering_sample_size * 2)
        /\ inflight' = [inflight EXCEPT ![r].pc = "clustering"]
        /\ UNCHANGED apiVars
        /\ UNCHANGED metaVars
        /\ UNCHANGED sdkVars

\* explore.py:407-415: clustering has returned and the response is sent
DetectClustering ==
    \E r \in DetectRequests :
        /\ inflight[r].pc = "clustering"
        /\ inflight' = [inflight EXCEPT ![r].pc = "done"]
        /\ UNCHANGED usage
        /\ UNCHANGED apiVars
        /\ UNCHANGED metaVars
        /\ UNCHANGED sdkVars

----------------------------------------------------------------------------
(* Initial states and specifications *)

InitApi ==
    /\ req = NoRequest
    /\ calls = <<>>
    /\ resp = Response(0, "", -1)
    /\ background_tasks = <<>>
    /\ bgLast = "none"
    /\ projects = InitProjects

InitMetaCall ==
    /\ mreq = NoMetaCall
    /\ mcalls = <<>>
    /\ mres = [status |-> 0, pipeline |-> <<>>]
    /\ resA = [status |-> 0]
    /\ resB = [status |-> 0]

Init ==
    /\ InitApi
    /\ environment = "production"
    /\ InitMetaCall
    /\ InitSdk
    /\ InitQuota
    /\ dbA = FullDatabase
    /\ dbB = FullDatabase

\* projects.py, with the backfill of events.py and the background tasks
Next ==
    \/ GetProject \/ DeleteProject \/ PostUpdateProject \/ post_sessions \/ get_sessions
    \/ get_events \/ post_search_tasks \/ get_languages \/ post_search_sessions
    \/ post_tasks \/ get_tasks \/ EmailTasks \/ get_tests \/ AddEvents \/ get_users
    \/ get_project_unique_events \/ PostUploadTasks(SampleFiles) \/ ConnectLangsmith
    \/ PostBackfillEvent \/ BgRun \/ RequestDone

Spec == Init /\ [][Next]_vars

\* explore.py and events.py
NextExplore ==
    \/ post_project_has_tasks \/ post_project_has_sessions \/ post_project_has_enough_labelled_tasks
    \/ get_dashboard_project_metrics \/ get_tasks_project_metrics \/ get_sessions_project_metrics
    \/ get_events_project_metrics \/ get_filtered_events \/ get_ab_tests \/ post_all_clusterings
    \/ post_all_clusters \/ PostSingleCluster \/ PostDetectClusters
    \/ get_nb_items_with_a_metadata_field \/ get_compute_nb_items_with_metadata_field
    \/ get_compute_session_length_per_metadata \/ get_successrate_stats \/ get_dashboard_graphs
    \/ GetEventDetectionMetrics \/ PostBackfillEvent \/ post_confirm_event \/ BgRun
    \/ RequestDone

SpecExplore == Init /\ [][NextExplore]_vars

\* post_upload_tasks on every file explored
NextUpload == PostUploadTasks(UploadedFiles) \/ BgRun \/ RequestDone

SpecUpload == Init /\ [][NextUpload]_vars

\* v2/endpoints/embeddings.py, in every environment
InitEmbed ==
    /\ InitApi
    /\ environment \in Environments
    /\ InitMetaCall
    /\ InitSdk
    /\ InitQuota
    /\ dbA = FullDatabase
    /\ dbB = FullDatabase

NextEmbed == PostEmbeddings \/ BgRun \/ RequestDone

SpecEmbed == InitEmbed /\ [][NextEmbed]_vars

\* metadata.py: every call, on one database
NextMeta ==
    \/ FetchCount \/ CalculateAverageForMetadata \/ CalculateTop10Percent
    \/ CalculateBottom10Percent \/ FetchUserMetadata \/ BuildUniqueMetadataFieldsPipeline
    \/ BreakdownBySumOfMetadataField(BreakdownArgs) \/ MetaDone

SpecMeta == Init /\ [][NextMeta]_vars

\* metadata.py: the same call on two databases
InitData ==
    /\ InitApi
    /\ environment = "production"
    /\ InitMetaCall
    /\ InitSdk
    /\ InitQuota
    /\ dbA \in Databases
    /\ dbB \in Databases

NextData ==
    \/ FetchUserMetadata \/ BreakdownBySumOfMetadataField(BreakdownArgsData) \/ MetaDone

SpecData == InitData /\ [][NextData]_vars

\* metadata.py: the rollups and thresholds, on every database of the second pool
InitRollup ==
    /\ InitApi
    /\ environment = "production"
    /\ InitMetaCall
    /\ InitSdk
    /\ InitQuota
    /\ dbA \in RollupDatabases
    /\ dbB = dbA

NextRollup ==
    \/ FetchUserMetadata \/ BreakdownBySumOfMetadataField(BreakdownArgsData)
    \/ CalculateTop10Percent \/ CalculateBottom10Percent \/ MetaDone

SpecRollup == InitRollup /\ [][NextRollup]_vars

\* post_detect_clusters requests of one organization, interleaved at their
\* awaits, from every metered usage
InitDetect ==
    /\ InitApi
    /\ environment = "production"
    /\ InitMetaCall
    /\ InitSdk
    /\ dbA = FullDatabase
    /\ dbB = FullDatabase
    /\ usage \in 0..MaxNum
    /\ inflight = [r \in DetectRequests |-> NotStarted]

NextDetect == DetectGetQuota \/ DetectCheck \/ DetectBill \/ DetectClustering

SpecDetect == InitDetect /\ [][NextDetect]_vars

\* phospho/tasks.py
NextSdk ==
    \/ TaskInit \/ TaskCollectionGet \/ TaskContent \/ TaskRefresh \/ TaskUpdate
    \/ ServerChange

SpecSdk == Init /\ [][NextSdk]_vars

----------------------------------------------------------------------------
(* Properties *)

VerifyFn == "verify_if_propelauth_user_can_access_project"

\* position i of the call list is preceded by a successful call of fn on project p
PrecededBy(i, fn, p) ==
    \E j \in 1..(i - 1) : calls[j].fn = fn /\ calls[j].ok /\ calls[j].project_id = p

\* C1: in every handler of explore.py and events.py, every service call on the
\* project of the request comes after a call of
\* verify_if_propelauth_user_can_access_project on that project, in the same
\* request, that returned without raising.
C1_VerifyBeforeServiceCalls ==
    \A i \in 1..Len(calls) :
        calls[i].fn # VerifyFn =>
            /\ calls[i].project_id = req.project_id
            /\ PrecededBy(i, VerifyFn, req.project_id)

\* C1 witness: an admitted post_detect_clusters request reached clustering.
C1_Witness ==
    /\ req.handler = "post_detect_clusters"
    /\ \E i \in 1..Len(calls) : calls[i].fn = "clustering"

StateChangingCalls == {"delete_project_from_id", "update_project", "add_project_events"}

ProjectTasks ==
    {"delete_project_related_resources", "process_file_upload_into_log_events",
     "collect_langsmith_data", "email_project_tasks"}

\* the calls and background tasks of the last request respect the membership check
C2_CheckedFirst ==
    /\ \A i \in 1..Len(calls) :
          calls[i].fn \in StateChangingCalls =>
              PrecededBy(i, "require_org_member", req.project_id)
    /\ \A k \in 1..Len(background_tasks) :
          background_tasks[k].fn \in ProjectTasks =>
              PrecededBy(Len(calls) + 1, "require_org_member", background_tasks[k].project_id)

\* a request by a user who is not a member of the organization owning the project
NonMemberRequest ==
    /\ req.handler = "none"
    /\ req'.handler # "none"
    /\ projects[req'.project_id].exists
    /\ ~IsOrgMember(req'.user, projects[req'.project_id].org_id)

\* C2: in projects.py a state-changing call on the project, or the enqueueing of
\* one of its background tasks, happens only after require_org_member succeeded
\* in the same request; a request from a user who is not a member of the owning
\* organization changes no project and enqueues nothing.
C2_MembersOnlyChangeProjects ==
    [][ /\ C2_CheckedFirst'
        /\ NonMemberRequest => (projects' = projects /\ background_tasks' = <<>>) ]_vars

\* C2 witness: a member deleted a project with cascade_delete.
C2_Witness ==
    /\ req.handler = "delete_project"
    /\ ~projects[req.project_id].exists
    /\ Len(background_tasks) = 1
    /\ \E i \in 1..Len(calls) : calls[i].fn = "delete_project_from_id"

\* the organization metadata of the request holds no non-empty customer_id
NoCustomerId(c) == c \in {Missing, None, ""}

\* verify_if_propelauth_user_can_access_project returned for the last request
Verified == calls # <<>> /\ calls[1].fn = VerifyFn /\ calls[1].ok

\* a background task was enqueued by the last request (it may have run since)
Enqueued == background_tasks # <<>> \/ bgLast # "none"

\* C3: post_backfill_event, once access is verified, raises 402 whenever the
\* organization has no non-empty customer_id and is not the Phospho organization;
\* then get_recipe_from_event_id is not called and no task is enqueued.  So
\* run_recipe_on_tasks_batched is enqueued only with a customer_id or for Phospho.
C3_BackfillPaymentGate ==
    (req.handler = "post_backfill_event" /\ Verified) =>
        /\ (NoCustomerId(req.args.customer_id)
            /\ projects[req.project_id].org_id # PHOSPHO_ORG_ID) =>
               /\ resp.code = 402
               /\ \A i \in 1..Len(calls) : calls[i].fn # "get_recipe_from_event_id"
               /\ ~Enqueued
        /\ Enqueued =>
               (~NoCustomerId(req.args.customer_id)
                \/ projects[req.project_id].org_id = PHOSPHO_ORG_ID)

\* C3 witness: a verified backfill request refused for an empty customer_id.
C3_Witness ==
    /\ req.handler = "post_backfill_event"
    /\ Verified
    /\ req.args.customer_id = ""
    /\ resp.code = 402

\* C4: post_embeddings raises 402 whenever the organization has no non-empty
\* customer_id, is not the Phospho organization and ENVIRONMENT is not "test";
\* generate_embeddings is then not called and no metered_prediction is enqueued.
C4_EmbeddingsPaymentGate ==
    (/\ req.handler = "post_embeddings"
     /\ NoCustomerId(req.args.customer_id)
     /\ req.args.org_id # PHOSPHO_ORG_ID
     /\ environment # "test") =>
        /\ resp.code = 402
        /\ calls = <<>>
        /\ ~Enqueued

\* C4 witness: a request refused outside production and test.
C4_Witness ==
    /\ req.handler = "post_embeddings"
    /\ environment = "staging"
    /\ req.args.customer_id = None
    /\ req.args.model = "intent-embed"
    /\ resp.code = 402

\* C5: post_detect_clusters, for a verified request on a project with tasks, of
\* an organization whose plan is "hobby" or absent and with
\* current_usage + min(total_nb_tasks, limit) >= max_usage, answers 402, the
\* status of the billing gates of post_backfill_event and post_embeddings.
C5_QuotaRejectionIs402 ==
    (/\ req.handler = "post_detect_clusters"
     /\ Verified
     /\ req.args.total_nb_tasks > 0
     /\ req.args.org_plan.plan \in {"hobby", None, Missing}
     /\ GetInt(req.args.org_plan.current_usage, 0)
            + Min(req.args.total_nb_tasks, req.args.limit)
          >= GetInt(req.args.org_plan.max_usage, PLAN_HOBBY_MAX_NB_DETECTIONS)) =>
        resp.code = 402

MetadataFunctions ==
    {"fetch_count", "calculate_average_for_metadata", "calculate_top10_percent",
     "calculate_bottom10_percent", "fetch_user_metadata",
     "_build_unique_metadata_fields_pipeline", "breakdown_by_sum_of_metadata_field"}

\* C6: every pipeline built in metadata.py starts with a $match stage that
\* requires project_id to equal the project_id argument, whatever the other
\* arguments are.
C6_ProjectFilterFirst ==
    (mreq.fn \in MetadataFunctions /\ mres.status # 400) =>
        /\ mres.pipeline # <<>>
        /\ mres.pipeline[1].op = "$match"
        /\ \A a \in mres.pipeline[1].args :
              a[1] = <<"project_id">> => (a[2] = "$eq" /\ a[3] = mreq.project_id)
        /\ \E a \in mres.pipeline[1].args : a[1] = <<"project_id">>

\* C6 witness: a breakdown by event name with a creation-date filter.
C6_Witness ==
    /\ mreq.fn = "breakdown_by_sum_of_metadata_field"
    /\ mreq.args.breakdown_by = "event_name"
    /\ mreq.args.filters.created_at_start # -1
    /\ mres.status = 200
    /\ Len(mres.pipeline) > 3

\* the documents of project p, in collection order
OwnedBy(docs, p) == SelectSeq(docs, LAMBDA d : d.project_id = p)

\* C7: fetch_user_metadata(P) and breakdown_by_sum_of_metadata_field(P) give the
\* same result on two databases that hold the same tasks and sessions of P.
C7_ResultDependsOnProjectOnly ==
    (/\ mreq.fn \in {"fetch_user_metadata", "breakdown_by_sum_of_metadata_field"}
     /\ OwnedBy(dbA.tasks, mreq.project_id) = OwnedBy(dbB.tasks, mreq.project_id)
     /\ OwnedBy(dbA.sessions, mreq.project_id) = OwnedBy(dbB.sessions, mreq.project_id)) =>
        resA = resB

BackgroundHandlers ==
    {"post_backfill_event", "email_tasks", "post_upload_tasks", "connect_langsmith"}

TaskOfHandler(h) ==
    CASE h = "post_backfill_event" -> "run_recipe_on_tasks_batched"
      [] h = "email_tasks" -> "email_project_tasks"
      [] h = "post_upload_tasks" -> "process_file_upload_into_log_events"
      [] h = "connect_langsmith" -> "collect_langsmith_data"

\* C8: an accepted request of post_backfill_event, email_tasks, post_upload_tasks
\* or connect_langsmith enqueues exactly one background task and answers with
\* status "ok" while that task has not started; the task running, whatever its
\* outcome, changes neither the request nor the response.
C8_FireAndForget ==
    [][ /\ (/\ req.handler = "none"
            /\ req'.handler \in BackgroundHandlers
            /\ resp'.code = 200) =>
               /\ Len(background_tasks') = 1
               /\ background_tasks'[1].fn = TaskOfHandler(req'.handler)
               /\ resp'.status = "ok"
               /\ bgLast' = "none"
        /\ (bgLast' # "none" /\ bgLast = "none") =>
               (resp' = resp /\ req' = req /\ calls' = calls) ]_vars

\* C8 witness: the Langsmith import failed after its request was answered "ok".
C8_Witness ==
    /\ req.handler = "connect_langsmith"
    /\ resp.status = "ok"
    /\ bgLast = "failed"
    /\ background_tasks = <<>>

\* C9: breakdown_by_sum_of_metadata_field with metric "sum" or "avg", in any
\* letter case, and a metadata_field outside number_metadata_fields raises 400
\* having called nothing: no aggregation, no compute_task_position.
C9_RejectsBeforeAnyCall ==
    (/\ mreq.fn = "breakdown_by_sum_of_metadata_field"
     /\ mreq.args.metric \in {s_sum, s_avg, <<"S", "U", "M">>, <<"A", "v", "g">>}
     /\ mreq.args.metadata_field \notin mreq.args.number_metadata_fields) =>
        (mres.status = 400 /\ mcalls = <<>>)

\* the text after the last dot of a file name (the whole name when it has none)
AfterLastDot(filename) ==
    LET dots == {i \in 1..Len(filename) : filename[i] = "."}
        last == IF dots = {} THEN 0 ELSE CHOOSE i \in dots : \A j \in dots : j <= i
    IN SubSeq(filename, last + 1, Len(filename))

\* what the claim asks of an accepted file
AcceptableFile(file) ==
    /\ file.filename # <<>>
    /\ AfterLastDot(file.filename) \in {s_csv, s_xlsx}
    /\ file.parses
    /\ \E c \in file.columns : Lower(Strip(c)) = s_input
    /\ \E c \in file.columns : Lower(Strip(c)) = s_output

CascadeTask(p) == BgTask("delete_project_related_resources", p)

\* C11: an accepted delete_project enqueues delete_project_related_resources
\* if and only if cascade_delete is true, the project being deleted by
\* delete_project_from_id by then (and still when the task runs); without
\* cascade_delete it calls nothing beyond the access checks and
\* delete_project_from_id.  The response is the project as read before the
\* deletion.  A refused delete_project enqueues nothing.
C11_CascadeOnlyOnRequest ==
    [][ /\ (req.handler = "none" /\ req'.handler = "delete_project") =>
              IF resp'.code = 200
              THEN /\ background_tasks' =
                          (IF req'.args.cascade_delete
                           THEN <<CascadeTask(req'.project_id)>> ELSE <<>>)
                   /\ calls' = <<Call("get_project_by_id", req'.project_id, TRUE),
                                 Call("require_org_member", req'.project_id, TRUE),
                                 Call("delete_project_from_id", req'.project_id, TRUE)>>
                   /\ projects[req'.project_id].exists
                   /\ ~projects'[req'.project_id].exists
                   /\ resp'.body = projects[req'.project_id]
              ELSE background_tasks' = <<>> /\ projects' = projects
        /\ \A k \in 1..Len(background_tasks) :
              background_tasks[k] = CascadeTask(background_tasks[k].project_id) =>
                  ~projects[background_tasks[k].project_id].exists ]_vars

\* C11 witness: a project with changed settings was deleted without cascade.
C11_Witness ==
    /\ req.handler = "delete_project"
    /\ ~req.args.cascade_delete
    /\ resp.code = 200
    /\ resp.body.settings = "s1"
    /\ background_tasks = <<>>
    /\ bgLast = "none"

\* the last post_embeddings request passed the billing gate and the model check
PastModelCheck ==
    /\ req.handler = "post_embeddings"
    /\ ~(/\ NoCustomerId(req.args.customer_id)
         /\ req.args.org_id # PHOSPHO_ORG_ID
         /\ environment # "test")
    /\ req.args.model = "intent-embed"

\* C12: a post_embeddings request that reaches the token count with one input
\* is rejected with 400 exactly when that input has more than 15000 tokens
\* (15000 is accepted); generate_embeddings is not called for an input over the
\* limit; on success usage.prompt_tokens and usage.total_tokens are the token
\* count of the input.
C12_TokenLimit ==
    (PastModelCheck /\ Len(req.args.input.items) = 1) =>
        LET n == req.args.input.items[1] IN
        /\ resp.code = 400 <=> n > 15000
        /\ n > 15000 => calls = <<>>
        /\ resp.code = 200 =>
               /\ resp.usage.prompt_tokens = n
               /\ resp.usage.total_tokens = n
               /\ calls = <<CallArg("generate_embeddings", "", n)>>

\* C12 witness: an input of exactly 15000 tokens was embedded.
C12_Witness ==
    /\ PastModelCheck
    /\ req.args.input.items = <<15000>>
    /\ resp.code = 200
    /\ resp.usage.total_tokens = 15000

\* C13: a post_embeddings request whose input is a list is accepted only if the
\* list holds exactly one string; a list of any other length, the empty list
\* included, is rejected with 400 and generate_embeddings is not called.
C13_ListOfExactlyOne ==
    (PastModelCheck /\ req.args.input.is_list) =>
        /\ resp.code = 200 => Len(req.args.input.items) = 1
        /\ Len(req.args.input.items) # 1 => (resp.code = 400 /\ calls = <<>>)

\* a Task object holds cached content
Cached(task) == task.content # NoContent

\* C14: a read of Task.content sends GET /tasks/{id} only when the object has
\* no cached content; with content cached (given to the constructor, loaded by
\* an earlier read or by refresh) it sends nothing and returns the cached value,
\* whatever the server holds by then.  The cached content of an object is
\* replaced by its refresh() only, which sends one GET, and no object's id
\* ever changes.
C14_ContentIsCached ==
    [][ /\ sdk'.op = "content" =>
              LET task == objs[sdk'.receiver] IN
              IF Cached(task)
              THEN sdk'.http = <<>> /\ sdk'.ret = task.content /\ objs' = objs
              ELSE /\ sdk'.http = <<HttpGet(task.task_id)>>
                   /\ sdk'.ret = objs'[sdk'.receiver].content
                   /\ sdk'.ret = ToContent(server[task.task_id])
        /\ sdk'.op = "refresh" =>
              /\ sdk'.http = <<HttpGet(objs[sdk'.receiver].task_id)>>
              /\ objs'[sdk'.receiver].content =
                     ToContent(server[objs[sdk'.receiver].task_id])
        /\ \A i \in 1..Len(objs) :
              /\ i <= Len(objs')
              /\ objs'[i].task_id = objs[i].task_id
              /\ (Cached(objs[i]) /\ objs'[i].content # objs[i].content) =>
                     (sdk'.op = "refresh" /\ sdk'.receiver = i) ]_vars

\* C14 witness: a read returned cached content that the server no longer holds.
C14_Witness ==
    /\ sdk.op = "content"
    /\ sdk.http = <<>>
    /\ sdk.ret.kind = "TaskModel"
    /\ sdk.ret # ToContent(server[objs[sdk.receiver].task_id])

\* C15: Task.update sends exactly one POST /tasks/{id} and returns a new Task
\* with the receiver's id whose content is the server's response; the receiver
\* keeps its id and its cached content, and so do all other objects.  A later
\* read of the receiver's cached content returns that pre-update value though
\* a newer object of the same task exists.
C15_UpdateReturnsNewTask ==
    [][ /\ sdk'.op = "update" =>
              LET i == sdk'.receiver IN
              /\ sdk'.http = <<HttpPost(objs[i].task_id)>>
              /\ Len(objs') = Len(objs) + 1
              /\ objs'[Len(objs')].task_id = objs[i].task_id
              /\ objs'[Len(objs')].content = ToContent(server'[objs[i].task_id])
              /\ SubSeq(objs', 1, Len(objs)) = objs
        /\ (/\ sdk'.op = "content"
            /\ Cached(objs[sdk'.receiver])
            /\ \E j \in (sdk'.receiver + 1)..Len(objs) :
                   objs[j].task_id = objs[sdk'.receiver].task_id) =>
              (sdk'.ret = objs[sdk'.receiver].content /\ sdk'.http = <<>>) ]_vars

\* C15 witness: after an update, the receiver still reads its old content while
\* the returned Task holds the new one.
C15_Witness ==
    /\ Len(objs) = 2
    /\ objs[1].task_id = objs[2].task_id
    /\ objs[1].content.kind = "TaskModel"
    /\ objs[2].content.kind = "TaskModel"
    /\ objs[1].content # objs[2].content
    /\ objs[2].content = ToContent(server[objs[2].task_id])
    /\ sdk.op = "content"
    /\ sdk.receiver = 1
    /\ sdk.ret = objs[1].content

\* the tasks of a project in a database, as a set
TasksOf(db, project_id) == {t \in Range(db.tasks) : t.project_id = project_id}

\* the tasks of a project carrying a user id
TasksWithUser(db, project_id) ==
    {t \in TasksOf(db, project_id) : t.user_id \notin {None, Missing}}

\* the position of a user id in ascending order
UserIdRank(u) == IF u = "u1" THEN 1 ELSE IF u = "u2" THEN 2 ELSE 0

\* a call of fetch_user_metadata without a user_id has returned
RollupCall == mreq.fn = "fetch_user_metadata" /\ mreq.args.user_id = None

\* C16: fetch_user_metadata(P) without a user_id returns one entry per
\* distinct non-null metadata.user_id of P's tasks, in ascending user_id
\* order; an entry's nb_tasks counts P's tasks of that user, its tasks_id
\* lists exactly those tasks, and the nb_tasks add up to the number of P's
\* tasks with a non-null user_id.
C16_OneEntryPerUser ==
    RollupCall =>
        LET own == TasksWithUser(dbA, mreq.project_id)
            users == resA.users
        IN /\ resA.status = 200
           /\ {users[i].user_id : i \in 1..Len(users)} = {t.user_id : t \in own}
           /\ \A i, j \in 1..Len(users) :
                  i < j => UserIdRank(users[i].user_id) < UserIdRank(users[j].user_id)
           /\ \A i \in 1..Len(users) :
                  LET mine == {t \in own : t.user_id = users[i].user_id}
                  IN /\ users[i].nb_tasks = Cardinality(mine)
                     /\ Len(users[i].tasks_id) = Cardinality(mine)
                     /\ Range(users[i].tasks_id) = {t.id : t \in mine}
           /\ SumSeq([i \in 1..Len(users) |-> users[i].nb_tasks]) = Cardinality(own)

\* two users, the later one met first in the collection, one of them with two
\* tasks, beside a task of the project without a user id
C16_Witness ==
    /\ RollupCall
    /\ mreq.project_id = "p1"
    /\ Len(resA.users) = 2
    /\ resA.users[1].nb_tasks = 2
    /\ dbA.tasks[1] = R1
    /\ {R4, R6} \subseteq Range(dbA.tasks)

\* C17: fetch_user_metadata raises 404 when a user_id is given and no task
\* of the project has it; without a user_id, a project with no task carrying
\* a user id gets an empty list and no error.
C17_NotFoundOnlyForNamedUser ==
    mreq.fn = "fetch_user_metadata" =>
        LET own == TasksOf(dbA, mreq.project_id)
            user_id == mreq.args.user_id
        IN /\ (user_id # None /\ \A t \in own : t.user_id # user_id)
                  => resA.status = 404 /\ mres.status = 404
           /\ (user_id = None /\ TasksWithUser(dbA, mreq.project_id) = {})
                  => resA.status = 200 /\ resA.users = <<>>

\* a user is asked for who has tasks in the other project only
C17_Witness ==
    /\ mreq.fn = "fetch_user_metadata"
    /\ mreq.project_id = "p2"
    /\ mreq.args.user_id = "u2"
    /\ R5 \in Range(dbA.tasks)
    /\ R1 \in Range(dbA.tasks)
    /\ resA.status = 404

\* the tasks of a project carrying an event of that name that is not removed
TasksWithEvent(db, project_id, event_name) ==
    {t \in TasksOf(db, project_id) :
        \E i \in 1..Len(t.events) :
            t.events[i].event_name = event_name /\ t.events[i].removed # TRUE}

\* C18: with breakdown_by "event_name" and metric "nb tasks", the row of an
\* event name counts exactly the tasks carrying at least one event of that
\* name that is not removed, each once, wherever that event stands among the
\* task's events of the name.
C18_CountsTasksWithLiveEvent ==
    (/\ mreq.fn = "breakdown_by_sum_of_metadata_field"
     /\ mreq.args.breakdown_by = "event_name"
     /\ mreq.args.metric = s_nb_tasks
     /\ mres.status = 200) =>
        \A event_name \in {"e1", "e2"} :
            LET n == Cardinality(TasksWithEvent(dbA, mreq.project_id, event_name))
                rows == {r \in resA.rows : r.key = event_name}
            IN IF n = 0 THEN rows = {}
               ELSE rows = {[key |-> event_name, value |-> <<n, 1>>]}

\* the tasks of the project of the call that belong to the user of an entry
TasksOfEntry(entry) ==
    {t \in TasksOf(dbA, mreq.project_id) : t.user_id = entry.user_id}

\* every event name of the user's tasks once in the entry's events
EventsOnce(entry) ==
    /\ \A i, j \in 1..Len(entry.events) :
           entry.events[i].event_name = entry.events[j].event_name => i = j
    /\ {entry.events[i].event_name : i \in 1..Len(entry.events)}
           = UNION {{e.event_name : e \in Range(t.events)} : t \in TasksOfEntry(entry)}

\* no two sessions of the entry with the same id
SessionIdsOnce(entry) ==
    \A i, j \in 1..Len(entry.sessions) :
        entry.sessions[i].id = entry.sessions[j].id => i = j

\* the sessions of the project that the user's tasks belong to
SessionsOfEntry(entry) ==
    {s \in Range(dbA.sessions) :
        /\ s.project_id = mreq.project_id
        /\ \E t \in TasksOfEntry(entry) : t.session_id = s.id}

\* the entry's sessions are the sessions of the user's tasks, each once, and
\* avg_session_length is their average
SessionsOnce(entry) ==
    /\ SessionIdsOnce(entry)
    /\ Range(entry.sessions) = SessionsOfEntry(entry)
    /\ \E order \in [1..Cardinality(SessionsOfEntry(entry)) -> SessionsOfEntry(entry)] :
           /\ Range(order) = SessionsOfEntry(entry)
           /\ entry.avg_session_length =
                  Avg(SumSeq([i \in DOMAIN order |-> order[i].session_length]),
                      Len(order))

ValueCounts(db, project_id, collection_name, metadata_field) ==
    LET docs == {d \in Range(CollectionDocs(db, collection_name)) :
                    d.project_id = project_id /\ MetadataExists(d, metadata_field)}
        values == {MetadataKey(d, metadata_field) : d \in docs}
    IN [v \in values |-> Cardinality({d \in docs : MetadataKey(d, metadata_field) = v})]

\* the count at a position of the counts in ascending order
AtAscendingIndex(counts, index) ==
    CHOOSE c \in {counts[v] : v \in DOMAIN counts} :
        /\ Cardinality({v \in DOMAIN counts : counts[v] < c}) <= index
        /\ index < Cardinality({v \in DOMAIN counts : counts[v] <= c})

\* the count at a position of the counts in descending order
AtDescendingIndex(counts, index) ==
    CHOOSE c \in {counts[v] : v \in DOMAIN counts} :
        /\ Cardinality({v \in DOMAIN counts : counts[v] > c}) <= index
        /\ index < Cardinality({v \in DOMAIN counts : counts[v] >= c})

\* C20: where calculate_bottom10_percent and calculate_top10_percent both
\* succeed on (project_id, collection_name, metadata_field), both read the
\* per-value document counts of metadata.<metadata_field> in the collection,
\* the first at ascending index min(n div 10, n - 1), the second at
\* descending index max(n div 10 - 1, 0), n being the number of values; so
\* the bottom value is at most the top value.
C20_SameDistribution ==
    (mreq.fn = "calculate_bottom10_percent" /\ mres.status = 200) =>
        LET a == mreq.args
            top == calculate_top10_percent(dbA, mreq.project_id, a.collection_name,
                                           a.metadata_field)
            counts == ValueCounts(dbA, mreq.project_id, a.collection_name,
                                  a.metadata_field)
            n == Cardinality(DOMAIN counts)
        IN top.status = 200 =>
               /\ n > 0
               /\ resA.value = <<AtAscendingIndex(counts, Min(n \div 10, n - 1)), 1>>
               /\ top.value = <<AtDescendingIndex(counts, Max((n \div 10) - 1, 0)), 1>>
               /\ resA.value[1] <= top.value[1]

\* the calls of the last request to a function, by position
CallsTo(fn) == {i \in 1..Len(calls) : calls[i].fn = fn}

\* the last request was a post_detect_clusters of an organization on the
\* hobby plan or without a plan
HobbyDetectRequest ==
    /\ req.handler = "post_detect_clusters"
    /\ req.args.org_plan.plan \in {"hobby", None, Missing}

\* C21: for an organization on the hobby plan or with no plan, every
\* admitted post_detect_clusters request keeps the metered usage under the
\* quota: current_usage plus the nb_credits_used given to bill_on_stripe is
\* strictly below max_usage.
C21_AdmittedStaysUnderQuota ==
    HobbyDetectRequest =>
        \A i \in CallsTo("bill_on_stripe") :
            GetInt(req.args.org_plan.current_usage, 0) + calls[i].arg
                < GetInt(req.args.org_plan.max_usage, PLAN_HOBBY_MAX_NB_DETECTIONS)

\* the project of the last post_detect_clusters request has no task
DetectNoTasks == req.args.total_nb_tasks = 0

\* the quota check of the last post_detect_clusters request fails
DetectQuotaExceeded ==
    /\ HobbyDetectRequest
    /\ GetInt(req.args.org_plan.current_usage, 0)
           + Min(req.args.total_nb_tasks, req.args.limit)
         >= GetInt(req.args.org_plan.max_usage, PLAN_HOBBY_MAX_NB_DETECTIONS)

\* C22: a post_detect_clusters request that is rejected, for a project
\* without tasks (404) or by the quota check of the hobby plan, calls neither
\* bill_on_stripe nor clustering: nothing is billed for it.
C22_RejectedIsNotBilled ==
    (/\ req.handler = "post_detect_clusters"
     /\ Verified
     /\ DetectNoTasks \/ DetectQuotaExceeded) =>
        /\ resp.code = IF DetectNoTasks THEN 404 ELSE DetectClustersQuotaStatus
        /\ CallsTo("bill_on_stripe") = {}
        /\ CallsTo("clustering") = {}

\* a request stopped by the quota check on a project with tasks
C22_Witness ==
    /\ req.handler = "post_detect_clusters"
    /\ Verified
    /\ ~DetectNoTasks
    /\ DetectQuotaExceeded
    /\ resp.code = DetectClustersQuotaStatus

\* the last request was a post_detect_clusters that passed every check
DetectAdmitted ==
    /\ req.handler = "post_detect_clusters"
    /\ Verified
    /\ ~DetectNoTasks
    /\ ~DetectQuotaExceeded

\* C23: an admitted post_detect_clusters request calls bill_on_stripe exactly
\* once, with nb_credits_used = 2 * min(total_nb_tasks, limit), and before
\* clustering; clustering is called at most once and never without the
\* billing call before it, so a request whose clustering fails is billed.
C23_BilledOnceBeforeClustering ==
    /\ DetectAdmitted =>
           /\ Cardinality(CallsTo("bill_on_stripe")) = 1
           /\ \A i \in CallsTo("bill_on_stripe") :
                  calls[i].arg = 2 * Min(req.args.total_nb_tasks, req.args.limit)
    /\ req.handler = "post_detect_clusters" =>
           /\ Cardinality(CallsTo("clustering")) <= 1
           /\ \A j \in CallsTo("clustering") :
                  \E i \in CallsTo("bill_on_stripe") : i < j

\* an admitted request whose clustering failed, after the billing
C23_Witness ==
    /\ DetectAdmitted
    /\ resp.code = 500
    /\ \E j \in CallsTo("clustering") : ~calls[j].ok
    /\ CallsTo("bill_on_stripe") # {}

\* a concurrent request passed the quota check
Admitted(r) == inflight[r].pc \in {"billing", "clustering", "done"}

\* a concurrent request was admitted or rejected
Decided(r) == Admitted(r) \/ inflight[r].pc = "rejected"

\* the credits a concurrent request has metered so far
Metered(r) ==
    IF inflight[r].pc \in {"clustering", "done"}
    THEN 2 * inflight[r].clustering_sample_size ELSE 0

\* whether a request of that sample size is admitted when it runs alone
\* from a metered usage
AdmittedAlone(metered, sample) ==
    sample > 0 /\ metered + sample < PLAN_HOBBY_MAX_NB_DETECTIONS

\* whether the decisions on two requests are those of running the first to
\* its end and then the second, from the usage metered before both
SequentialDecisions(first, second) ==
    LET before == usage - Metered(first) - Metered(second)
        sample1 == inflight[first].clustering_sample_size
        sample2 == inflight[second].clustering_sample_size
        after1 == IF AdmittedAlone(before, sample1) THEN before + 2 * sample1 ELSE before
    IN /\ Admitted(first) <=> AdmittedAlone(before, sample1)
       /\ Admitted(second) <=> AdmittedAlone(after1, sample2)

\* C24: when post_detect_clusters requests of one hobby-plan organization
\* run concurrently, the requests admitted are those some sequential
\* execution admits; two requests are never both admitted on the same
\* current_usage when their sample sizes together reach max_usage.
C24_AdmissionsSequential ==
    \A r1, r2 \in DetectRequests :
        (r1 # r2 /\ Decided(r1) /\ Decided(r2)) =>
            /\ SequentialDecisions(r1, r2) \/ SequentialDecisions(r2, r1)
            /\ (/\ Admitted(r1) /\ Admitted(r2)
                /\ inflight[r1].org_plan.current_usage = inflight[r2].org_plan.current_usage)
                   => inflight[r1].clustering_sample_size + inflight[r2].clustering_sample_size
                          < PLAN_HOBBY_MAX_NB_DETECTIONS

\* the error of the first failing check of post_embeddings, in the order
\* payment gate, model, list length, token limit, generation; <<200, "">>
\* when no check fails
FirstFailingCheck ==
    LET a == req.args IN
    IF NoCustomerId(a.customer_id) /\ a.org_id # PHOSPHO_ORG_ID /\ environment # "test"
    THEN <<402, "You need to add a payment method">>
    ELSE IF a.model # "intent-embed"
    THEN <<400, "Model not supported">>
    ELSE IF a.input.is_list /\ Len(a.input.items) # 1
    THEN <<400, "Only one string is allowed">>
    ELSE IF a.input.items[1] > TOKEN_LIMIT
    THEN <<400, "Input token count is too high">>
    ELSE IF ~a.generated
    THEN <<500, "Failed to generate embeddings">>
    ELSE <<200, "">>

\* C25: post_embeddings checks in the order payment gate (402), model (400),
\* list length (400), token limit (400), generate_embeddings returning None
\* (500), and the first failing check alone decides the error; a request
\* failing a check before the generation does not call generate_embeddings,
\* and a failing request enqueues no billing task.
C25_FirstFailingCheckDecides ==
    req.handler = "post_embeddings" =>
        /\ <<resp.code, resp.detail>> = FirstFailingCheck
        /\ (FirstFailingCheck[1] \in {402, 400}) => calls = <<>>
        /\ (FirstFailingCheck[1] # 200) => ~Enqueued

\* C26: the two success rates agree: for every user of the project, the
\* avg_success_rate of fetch_user_metadata equals the value of the user's row
\* in breakdown_by_sum_of_metadata_field with metric "avg success rate"
\* broken down by the user_id metadata field, also when some of the user's
\* tasks carry no flag.
C26_SuccessRatesAgree ==
    (/\ mreq.fn = "breakdown_by_sum_of_metadata_field"
     /\ mreq.args.breakdown_by = "user_id"
     /\ mreq.args.metric = s_avg_success_rate
     /\ mres.status = 200) =>
        LET users == fetch_user_metadata(dbA, mreq.project_id, None, "forward").users
        IN \A i \in 1..Len(users) :
               \E row \in resA.rows :
                   /\ row.key = users[i].user_id
                   /\ row.value = users[i].avg_success_rate

====
